---- MODULE Spec2Model ----
(***************************************************************************)
(* Labelpilot (CCF-Lens): the venue resolution pipeline.                   *)
(*   - SiteManager       (adapters/types.ts): processing ledger, markers   *)
(*   - DblpService       (services/dblp-service.ts): lookup client, cache  *)
(*   - SettingsStore     (stores/settings-store.ts): settings, persistence *)
(*   - App orchestrator  (App.vue): bounded lookup queue, epoch, badges    *)
(* Scheduling is single-threaded: every action below is one synchronous    *)
(* run of a handler or of a promise continuation.                          *)
(***************************************************************************)
EXTENDS Integers, Sequences, FiniteSets, TLC

\* ------------------------------------------------------------------ bounds
MaxEpoch == 2        \* teardowns explored (processingEpoch is unbounded)
MaxPage  == 2        \* papers the adapter presents in one scan
MaxCalls == 2        \* direct queryByTitle calls of a service client
MaxTitle == 3        \* characters of a title a client of the cache key asks for

\* ------------------------------------------------------- program constants
DBLP_LOOKUP_CONCURRENCY == 2

\* ------------------------------------------------------------ null values
Null      == "null"        \* JS null / undefined
Undefined == "undefined"   \* an absent optional field

\* ---------------------------------------------------- titles and cache key
\* A title is a sequence of characters over a small alphabet.
IsSpace(c) == c = " "

ToLowerChar(c) == CASE c = "A" -> "a" [] c = "B" -> "b" [] OTHER -> c

ToLowerCase(s) == [i \in 1..Len(s) |-> ToLowerChar(s[i])]

RECURSIVE TrimStart(_)
TrimStart(s) == IF s # <<>> /\ IsSpace(Head(s)) THEN TrimStart(Tail(s)) ELSE s

RECURSIVE TrimEnd(_)
TrimEnd(s) ==
    IF s # <<>> /\ IsSpace(s[Len(s)]) THEN TrimEnd(SubSeq(s, 1, Len(s) - 1)) ELSE s

Trim(s) == TrimEnd(TrimStart(s))

\* replace(/\s+/g, '_'): every maximal run of whitespace becomes one "_"
RECURSIVE ReplaceSpaceRuns(_)
ReplaceSpaceRuns(s) ==
    IF s = <<>> THEN <<>>
    ELSE IF IsSpace(Head(s))
         THEN <<"_">> \o ReplaceSpaceRuns(TrimStart(s))
         ELSE <<Head(s)>> \o ReplaceSpaceRuns(Tail(s))

DBLP_CACHE_PREFIX == "dblp_"

generateCacheKey(title) ==
    <<DBLP_CACHE_PREFIX>> \o ReplaceSpaceRuns(Trim(ToLowerCase(title)))

\* ------------------------------------------------------------ venue matcher
\* The catalog and the matcher live in core/venue-matcher (not in this tree).
Catalog ==
    [CVPR |-> [abbr |-> "CVPR", name |-> "CVPR", rank |-> "A"],
     ICDM |-> [abbr |-> "ICDM", name |-> "ICDM", rank |-> "B"]]

\* entry: null
NoEntry == [abbr |-> "", name |-> "", rank |-> Null]

ZeroMatch ==
    [matched |-> FALSE, entry |-> NoEntry, confidence |-> "none",
     originalVenue |-> "", cleanedVenue |-> ""]

\* The catalog in its order of search, and the aliases of its entries
CatalogKeys == <<"CVPR", "ICDM">>

CatalogAliases ==
    [CVPR |-> {<<"cvf">>}, ICDM |-> {<<"data", "mining">>}]

\* The venue strings the matcher is asked about
MatchVenues ==
    {"CVPR", "cvpr", "CVPR 2024", "CVPR Workshops", "ICDM", "Data Mining",
     "Mining", "CVF", "CVF 2024", "Nature"}

\* A venue string as its words, split at whitespace (any other string is
\* one word)
Words(venue) ==
    CASE venue = "CVPR 2024"      -> <<"CVPR", "2024">>
      [] venue = "CVPR Workshops" -> <<"CVPR", "Workshops">>
      [] venue = "Data Mining"    -> <<"Data", "Mining">>
      [] venue = "CVF 2024"       -> <<"CVF", "2024">>
      [] OTHER                    -> <<venue>>

\* The string of a sequence of words, joined by single spaces
Text(words) ==
    IF words = <<>> THEN ""
    ELSE IF Len(words) = 1 THEN words[1]
    ELSE CHOOSE venue \in MatchVenues : Words(venue) = words

LowerWord(w) ==
    CASE w = "CVPR"      -> "cvpr"
      [] w = "ICDM"      -> "icdm"
      [] w = "CVF"       -> "cvf"
      [] w = "Data"      -> "data"
      [] w = "Mining"    -> "mining"
      [] w = "Workshops" -> "workshops"
      [] w = "Nature"    -> "nature"
      [] OTHER           -> w

LowerWords(words) == [i \in 1..Len(words) |-> LowerWord(words[i])]

\* The number of characters of a lower-case word
WordLength(w) ==
    CASE w \in {"cvpr", "icdm", "data", "2024"} -> 4
      [] w = "cvf"       -> 3
      [] w \in {"mining", "nature"} -> 6
      [] w = "workshops" -> 9
      [] OTHER           -> 1

RECURSIVE TextLength(_)
TextLength(words) ==
    IF words = <<>> THEN 0
    ELSE WordLength(Head(words))
           + (IF Len(words) > 1 THEN 1 ELSE 0) + TextLength(Tail(words))

IsYearToken(w) == w \in {"2024"}

\* Case-insensitive, whitespace-collapsed
normalizeVenue(venue) == LowerWords(Words(venue))

\* Without its trailing year tokens
RECURSIVE StripTrailing(_)
StripTrailing(words) ==
    IF words # <<>> /\ IsYearToken(words[Len(words)])
    THEN StripTrailing(SubSeq(words, 1, Len(words) - 1))
    ELSE words

cleanVenue(venue) == StripTrailing(Words(venue))

EntryNames(key) ==
    {normalizeVenue(Catalog[key].abbr), normalizeVenue(Catalog[key].name)}

\* small occurs in big as a run of consecutive words
Contains(big, small) ==
    \E i \in 0..(Len(big) - Len(small)) :
        SubSeq(big, i + 1, i + Len(small)) = small

\* The shortest text accepted as a partial match
MinPartialLength == 4

ExactHit(key, venue) == normalizeVenue(venue) \in EntryNames(key)

CleanedHit(key, venue) == LowerWords(cleanVenue(venue)) \in EntryNames(key)

PartialHit(key, venue) ==
    LET cleaned == LowerWords(cleanVenue(venue))
    IN  \E name \in EntryNames(key) \cup CatalogAliases[key] :
            \/ Contains(cleaned, name) /\ TextLength(name) >= MinPartialLength
            \/ Contains(name, cleaned) /\ TextLength(cleaned) >= MinPartialLength

AcronymHit(key, venue) == LowerWords(cleanVenue(venue)) \in CatalogAliases[key]

\* The first entry of the catalog a tier finds for the venue, or Null
FirstCatalogKey(Hit(_, _), venue) ==
    LET hits == {i \in 1..Len(CatalogKeys) : Hit(CatalogKeys[i], venue)}
    IN  IF hits = {} THEN Null
        ELSE CatalogKeys[CHOOSE i \in hits : \A j \in hits : i <= j]

Matched(key, confidence, venue) ==
    [matched |-> TRUE, entry |-> Catalog[key], confidence |-> confidence,
     originalVenue |-> venue, cleanedVenue |-> Text(cleanVenue(venue))]

\* match that tries the partial tier before the others
MatchPartialFirst(venue) ==
    LET exact == FirstCatalogKey(ExactHit, venue)
        cleaned == FirstCatalogKey(CleanedHit, venue)
        partial == FirstCatalogKey(PartialHit, venue)
        acronym == FirstCatalogKey(AcronymHit, venue)
    IN  IF partial # Null THEN Matched(partial, "partial", venue)
        ELSE IF exact # Null THEN Matched(exact, "exact", venue)
        ELSE IF cleaned # Null THEN Matched(cleaned, "cleaned", venue)
        ELSE IF acronym # Null THEN Matched(acronym, "acronym", venue)
        ELSE [matched |-> FALSE, entry |-> NoEntry, confidence |-> "none",
              originalVenue |-> venue,
              cleanedVenue |-> Text(cleanVenue(venue))]

\* match(rawVenue): the tiers in priority order, first match wins
Match(venue) ==
    LET exact == FirstCatalogKey(ExactHit, venue)
        cleaned == FirstCatalogKey(CleanedHit, venue)
        partial == FirstCatalogKey(PartialHit, venue)
        acronym == FirstCatalogKey(AcronymHit, venue)
    IN  IF exact # Null THEN Matched(exact, "exact", venue)
        ELSE IF cleaned # Null THEN Matched(cleaned, "cleaned", venue)
        ELSE IF partial # Null THEN Matched(partial, "partial", venue)
        ELSE IF acronym # Null THEN Matched(acronym, "acronym", venue)
        ELSE [matched |-> FALSE, entry |-> NoEntry, confidence |-> "none",
              originalVenue |-> venue,
              cleanedVenue |-> Text(cleanVenue(venue))]

\* paper.matchResult.entry?.rank || null
RankOf(matchResult) == matchResult.entry.rank

\* ------------------------------------------------------- the page (adapter)
Ids      == {"p1", "p2", "p3"}
Elements == {"e1", "e2", "e3", "e4"}

\* What the adapter extracts from each element: e1 and e2 list the same
\* paper; p1 and p2 have no venue and titles that share one cache key
\* (they differ in letter case only), p2 has a year; p3 comes with a venue.
PaperAt(e) ==
    CASE e = "e1" -> [id |-> "p1", title |-> <<"A", "b">>, year |-> Null,
                      venue |-> Null, venueSource |-> "unknown", element |-> "e1"]
      [] e = "e2" -> [id |-> "p1", title |-> <<"A", "b">>, year |-> Null,
                      venue |-> Null, venueSource |-> "unknown", element |-> "e2"]
      [] e = "e3" -> [id |-> "p2", title |-> <<"a", "B">>, year |-> "2023",
                      venue |-> Null, venueSource |-> "unknown", element |-> "e3"]
      [] OTHER    -> [id |-> "p3", title |-> <<"b">>, year |-> "2024",
                      venue |-> "CVPR", venueSource |-> "comment", element |-> "e4"]

\* All repetition-free sequences of elements of length at most MaxPage
RECURSIVE SeqsOver(_, _)
SeqsOver(S, n) ==
    IF n = 0 THEN {<<>>}
    ELSE LET shorter == SeqsOver(S, n - 1)
         IN  shorter \cup
             {Append(q, e) : q \in {r \in shorter : Len(r) = n - 1},
                             e \in S}

PageSeqs ==
    {q \in SeqsOver(Elements, MaxPage) :
        \A i, j \in 1..Len(q) : i # j => q[i] # q[j]}

Sites == {"arxiv", "ieee"}

\* ------------------------------------------------------------------- state
VARIABLES
    marker,             \* DOM: elements carrying data-ccf-rank-processed
    currentAdapter,     \* SiteManager.currentAdapter (site id or Null)
    observing,          \* the adapter's MutationObserver is connected
    processedPapers,    \* SiteManager.processedPapers: a map id -> entry
    paperOrder,         \* insertion order of the processedPapers Map
    processedElements,  \* SiteManager.processedElements
    phase,              \* component lifecycle: setup, mounted, unmounted
    showRanks,          \* settingsStore.settings.showRanks (ranks shown)
    processingEpoch,
    dblpQueue,          \* tasks enqueued and not yet started
    dblpActiveCount,
    dblpInFlight,
    tasks,              \* tasks started whose promise chain has not finished
    nextTask,           \* identity of the next task closure
    mountedBadges,      \* a map id -> badgeState
    badgeContainers,    \* DOM: the number of badge containers per paper id
    pendingUiUpdate,    \* a UI-update timer is armed
    stats,              \* the reactive statistics shown by the StatsPanel
    cache,              \* CacheManager contents: key -> DblpResult
    calls,              \* queryByTitle calls made directly by a client
    settings,           \* SettingsStore._settings, but for its showRanks
                        \* (the variable showRanks)
    gmStorage,          \* the GM value stored under SETTINGS_STORAGE_KEY
    loaded,             \* SettingsStore._loaded
    adapters,           \* SiteManager.adapters: the Map's entries in order
    factories,          \* SiteManager.factories: the Map's entries in order
    batch,              \* the queryBatch call of a client: where it stands,
                        \* its results Map and the log of what it did
    storeCall,          \* the SettingsStore call made last: the lines it
                        \* wrote with console.error and whether it threw
                        \* (its promise was rejected)
    last                \* history of the calls a direct client of the
                        \* SiteManager or of the DblpService made

vars == <<marker, currentAdapter, observing, processedPapers, paperOrder,
          processedElements, phase, showRanks, processingEpoch, dblpQueue,
          dblpActiveCount, dblpInFlight, tasks, nextTask, mountedBadges,
          pendingUiUpdate, stats, cache, calls, settings, gmStorage, loaded,
          adapters, factories, batch, badgeContainers, storeCall, last>>

\* The mutable program state as one record, so that a handler that calls
\* other handlers is the composition of their effects.
Cur ==
    [marker |-> marker, currentAdapter |-> currentAdapter,
     observing |-> observing, processedPapers |-> processedPapers,
     paperOrder |-> paperOrder, processedElements |-> processedElements,
     showRanks |-> showRanks, processingEpoch |-> processingEpoch,
     dblpQueue |-> dblpQueue, dblpActiveCount |-> dblpActiveCount,
     dblpInFlight |-> dblpInFlight, tasks |-> tasks, nextTask |-> nextTask,
     mountedBadges |-> mountedBadges, pendingUiUpdate |-> pendingUiUpdate,
     stats |-> stats, cache |-> cache, settings |-> settings,
     gmStorage |-> gmStorage, loaded |-> loaded, adapters |-> adapters,
     factories |-> factories, batch |-> batch,
     badgeContainers |-> badgeContainers, storeCall |-> storeCall]

Commit(s) ==
    \E v \in {s} :
        /\ marker' = v.marker
        /\ currentAdapter' = v.currentAdapter
        /\ observing' = v.observing
        /\ processedPapers' = v.processedPapers
        /\ paperOrder' = v.paperOrder
        /\ processedElements' = v.processedElements
        /\ showRanks' = v.showRanks
        /\ processingEpoch' = v.processingEpoch
        /\ dblpQueue' = v.dblpQueue
        /\ dblpActiveCount' = v.dblpActiveCount
        /\ dblpInFlight' = v.dblpInFlight
        /\ tasks' = v.tasks
        /\ nextTask' = v.nextTask
        /\ mountedBadges' = v.mountedBadges
        /\ pendingUiUpdate' = v.pendingUiUpdate
        /\ stats' = v.stats
        /\ cache' = v.cache
        /\ settings' = v.settings
        /\ gmStorage' = v.gmStorage
        /\ loaded' = v.loaded
        /\ adapters' = v.adapters
        /\ factories' = v.factories
        /\ batch' = v.batch
        /\ badgeContainers' = v.badgeContainers
        /\ storeCall' = v.storeCall

\* ------------------------------------------------------------- SiteManager
\* Map.set(k, v) and Map.has(k) on a map held as a function
MapSet(m, k, v) == [x \in DOMAIN m \cup {k} |-> IF x = k THEN v ELSE m[x]]

EmptyMap == [x \in {} |-> Null]

HasPaper(s, id) == id \in DOMAIN s.processedPapers

\* The adapter registry. An adapter is known by its siteId; an entry of
\* this.adapters is [key, siteId], the key it is registered under and the
\* adapter; an entry of this.factories is [key, siteId], with the adapter
\* the factory creates. A URL is known by the sites whose urlPatterns
\* test true on it.
Urls ==
    {[href |-> "https://arxiv.org/list/cs.AI/recent", matches |-> {"arxiv"}],
     [href |-> "https://ieeexplore.ieee.org/search/searchresult.jsp",
      matches |-> {"ieee"}],
     [href |-> "https://arxiv.org/abs/1?from=ieeexplore.ieee.org/search",
      matches |-> {"arxiv", "ieee"}],
     [href |-> "https://example.org/", matches |-> {}]}

\* adapter.isMatch(url): urlPatterns.some(pattern => pattern.test(url))
isMatch(siteId, url) == siteId \in url.matches

\* Map.has and Map.set on a Map held as the sequence of its entries: set
\* keeps the place of a key that is present
EntryKeys(m) == {m[i].key : i \in 1..Len(m)}

EntryPut(m, key, siteId) ==
    IF key \in EntryKeys(m)
    THEN [i \in 1..Len(m) |->
             IF m[i].key = key THEN [key |-> key, siteId |-> siteId]
             ELSE m[i]]
    ELSE Append(m, [key |-> key, siteId |-> siteId])

registerAdapter(s, siteId) ==
    [s EXCEPT !.adapters = EntryPut(@, siteId, siteId)]

registerAdapterFactory(s, siteId, created) ==
    [s EXCEPT !.factories = EntryPut(@, siteId, created)]

\* the first entry of m whose adapter matches the URL, 0 when there is none
FirstMatch(m, url) ==
    LET hits == {i \in 1..Len(m) : isMatch(m[i].siteId, url)}
    IN  IF hits = {} THEN 0 ELSE CHOOSE i \in hits : \A j \in hits : i <= j

\* detectCurrentSite that registers every adapter it creates
detectCurrentSiteKeepingAll(s, url) ==
    LET a == FirstMatch(s.adapters, url)
        f == FirstMatch(s.factories, url)
        RECURSIVE Created(_, _)
        Created(m, i) ==
            IF i > (IF f = 0 THEN Len(s.factories) ELSE f) THEN m
            ELSE Created(EntryPut(m, s.factories[i].key,
                                  s.factories[i].siteId), i + 1)
    IN  IF a # 0 THEN [s |-> s, adapter |-> s.adapters[a].siteId]
        ELSE [s |-> [s EXCEPT !.adapters = Created(@, 1)],
              adapter |-> IF f = 0 THEN Null ELSE s.factories[f].siteId]

\* detectCurrentSite: the adapter found, or Null, and the registry after it
detectCurrentSite(s, url) ==
    LET a == FirstMatch(s.adapters, url)
        f == FirstMatch(s.factories, url)
    IN  IF a # 0 THEN [s |-> s, adapter |-> s.adapters[a].siteId]
        ELSE IF f # 0
        THEN [s |-> [s EXCEPT !.adapters =
                                  EntryPut(@, s.factories[f].key,
                                           s.factories[f].siteId)],
              adapter |-> s.factories[f].siteId]
        ELSE [s |-> s, adapter |-> Null]

\* initialize(): the state after it and the value it returns
initialize(s, url) ==
    LET d == detectCurrentSite(s, url)
    IN  [s |-> [d.s EXCEPT !.currentAdapter = d.adapter],
         returns |-> d.adapter # Null]

\* hasElementBeenProcessed without the look at the DOM attribute
hasElementBeenProcessedInMemory(s, paperId, element) ==
    [ret |-> paperId \in s.processedElements, st |-> s]

\* hasElementBeenProcessed: the answer, and the state after the sync of the
\* in-memory set with the DOM attribute
hasElementBeenProcessed(s, paperId, element) ==
    IF paperId \in s.processedElements
    THEN [ret |-> TRUE, st |-> s]
    ELSE IF element \in s.marker
         THEN [ret |-> TRUE,
               st |-> [s EXCEPT !.processedElements = @ \cup {paperId}]]
         ELSE [ret |-> FALSE, st |-> s]

\* markElementAsProcessed without the setAttribute
markElementInMemoryOnly(s, paperId, element) ==
    [s EXCEPT !.processedElements = @ \cup {paperId}]

markElementAsProcessed(s, paperId, element) ==
    [s EXCEPT !.processedElements = @ \cup {paperId},
              !.marker = @ \cup {element}]

\* The iteration without `if (this.processedPapers.has(paper.id)) continue`
ScanPaperOverwriting(s, paper) ==
    LET r == hasElementBeenProcessed(s, paper.id, paper.element)
    IN  IF r.ret THEN r.st
        ELSE LET matchResult ==
                     IF paper.venue # Null /\ paper.venue # ""
                     THEN Match(paper.venue) ELSE ZeroMatch
                 processedPaper ==
                     [id |-> paper.id, title |-> paper.title,
                      year |-> paper.year, venue |-> paper.venue,
                      venueSource |-> paper.venueSource,
                      element |-> paper.element,
                      matchResult |-> matchResult, processed |-> FALSE]
             IN  [r.st EXCEPT
                    !.processedPapers = MapSet(@, paper.id, processedPaper),
                    !.paperOrder =
                        IF HasPaper(s, paper.id) THEN @ ELSE Append(@, paper.id)]

\* The iteration that never asks the matcher
ScanPaperWithoutMatch(s, paper) ==
    IF HasPaper(s, paper.id) THEN s
    ELSE LET r == hasElementBeenProcessed(s, paper.id, paper.element)
         IN  IF r.ret THEN r.st
             ELSE LET processedPaper ==
                          [id |-> paper.id, title |-> paper.title,
                           year |-> paper.year, venue |-> paper.venue,
                           venueSource |-> paper.venueSource,
                           element |-> paper.element,
                           matchResult |-> ZeroMatch, processed |-> FALSE]
                  IN  [r.st EXCEPT
                         !.processedPapers = MapSet(@, paper.id, processedPaper),
                         !.paperOrder = Append(@, paper.id)]

\* One iteration of the loop of processCurrentPage
ScanPaper(s, paper) ==
    IF HasPaper(s, paper.id) THEN s
    ELSE LET r == hasElementBeenProcessed(s, paper.id, paper.element)
         IN  IF r.ret THEN r.st
             ELSE LET matchResult ==
                          IF paper.venue # Null /\ paper.venue # ""
                          THEN Match(paper.venue) ELSE ZeroMatch
                      processedPaper ==
                          [id |-> paper.id, title |-> paper.title,
                           year |-> paper.year, venue |-> paper.venue,
                           venueSource |-> paper.venueSource,
                           element |-> paper.element,
                           matchResult |-> matchResult, processed |-> FALSE]
                  IN  [r.st EXCEPT
                         !.processedPapers = MapSet(@, paper.id, processedPaper),
                         !.paperOrder = Append(@, paper.id)]

RECURSIVE ScanPapers(_, _)
ScanPapers(s, papers) ==
    IF papers = <<>> THEN s
    ELSE ScanPapers(ScanPaper(s, Head(papers)), Tail(papers))

\* getPapers() of the current adapter, for the elements now on the page
getPapers(page) == [i \in 1..Len(page) |-> PaperAt(page[i])]

\* A scan that first drops the entries of the papers no longer presented
processCurrentPageRebuilding(s, page) ==
    LET presented == {PaperAt(page[i]).id : i \in 1..Len(page)}
        kept == DOMAIN s.processedPapers \cap presented
        IsKept(id) == id \in kept
        s0 == [s EXCEPT
                 !.processedPapers = [id \in kept |-> s.processedPapers[id]],
                 !.paperOrder = SelectSeq(@, IsKept)]
    IN  IF s.currentAdapter = Null THEN s
        ELSE ScanPapers(s0, getPapers(page))

processCurrentPage(s, page) ==
    IF s.currentAdapter = Null THEN s
    ELSE ScanPapers(s, getPapers(page))

\* processCurrentPage on a page whose one element the adapter extracts the
\* given venue from
processVenuePage(s, e, venue) ==
    IF s.currentAdapter = Null THEN s
    ELSE ScanPapers(s, <<[PaperAt(e) EXCEPT !.venue = venue,
                                            !.venueSource = "comment"]>>)

\* markAsProcessed that does nothing for an id without a ledger entry
markAsProcessedKnownOnly(s, paperId) ==
    IF HasPaper(s, paperId)
    THEN LET paper == s.processedPapers[paperId]
             s1 == [s EXCEPT !.processedPapers[paperId].processed = TRUE]
         IN  IF paper.element # Null /\ paper.element \notin s.marker
             THEN markElementAsProcessed(s1, paperId, paper.element)
             ELSE [s1 EXCEPT !.processedElements = @ \cup {paperId}]
    ELSE s

markAsProcessed(s, paperId) ==
    IF HasPaper(s, paperId)
    THEN LET paper == s.processedPapers[paperId]
             s1 == [s EXCEPT !.processedPapers[paperId].processed = TRUE]
         IN  IF paper.element # Null /\ paper.element \notin s.marker
             THEN markElementAsProcessed(s1, paperId, paper.element)
             ELSE [s1 EXCEPT !.processedElements = @ \cup {paperId}]
    ELSE [s EXCEPT !.processedElements = @ \cup {paperId}]

\* isProcessed(paperId, element?): element = Null when not provided
isProcessed(s, paperId, element) ==
    IF paperId \in s.processedElements
    THEN [ret |-> TRUE, st |-> s]
    ELSE IF element # Null /\ element \in s.marker
         THEN [ret |-> TRUE,
               st |-> [s EXCEPT !.processedElements = @ \cup {paperId}]]
         ELSE [ret |-> FALSE, st |-> s]

\* reset that leaves the DOM alone whatever its argument
resetKeepingMarkers(s, clearDomMarkers) ==
    [s EXCEPT !.processedPapers = EmptyMap,
              !.paperOrder = <<>>,
              !.processedElements = {}]

reset(s, clearDomMarkers) ==
    LET stripped ==
            {s.processedPapers[id].element : id \in DOMAIN s.processedPapers}
    IN  [s EXCEPT
           !.marker = IF clearDomMarkers THEN @ \ stripped ELSE @,
           !.processedPapers = EmptyMap,
           !.paperOrder = <<>>,
           !.processedElements = {}]

Ranks == {"A", "B", "C", "unknown"}

\* The loop of getStatistics without its else branch
RECURSIVE CountRanksMatchedOnly(_, _, _)
CountRanksMatchedOnly(s, order, acc) ==
    IF order = <<>> THEN acc
    ELSE LET paper == s.processedPapers[Head(order)]
         IN  IF paper.matchResult.matched /\ paper.matchResult.entry # NoEntry
             THEN CountRanksMatchedOnly(s, Tail(order),
                      [acc EXCEPT ![paper.matchResult.entry.rank] = @ + 1])
             ELSE CountRanksMatchedOnly(s, Tail(order), acc)

\* The loop of getStatistics over processedPapers.values()
RECURSIVE CountRanks(_, _, _)
CountRanks(s, order, acc) ==
    IF order = <<>> THEN acc
    ELSE LET paper == s.processedPapers[Head(order)]
             key == IF paper.matchResult.matched /\ paper.matchResult.entry # NoEntry
                    THEN paper.matchResult.entry.rank ELSE "unknown"
         IN  CountRanks(s, Tail(order), [acc EXCEPT ![key] = @ + 1])

getStatistics(s) ==
    [total |-> Cardinality(DOMAIN s.processedPapers),
     byRank |-> CountRanks(s, s.paperOrder, [r \in Ranks |-> 0])]

\* getPapersByRank whose null case takes the papers without a venue string
getPapersByRankWithoutVenue(s, rank) ==
    LET Keep(id) ==
            LET paper == s.processedPapers[id]
            IN  IF rank = Null THEN paper.venue = Null
                ELSE RankOf(paper.matchResult) = rank
        order == SelectSeq(s.paperOrder, Keep)
    IN  [i \in 1..Len(order) |-> s.processedPapers[order[i]]]

\* getPapersByRank(rank): the entries, in the order of the Map, whose
\* matched entry has the rank, or for null those that are not matched
getPapersByRank(s, rank) ==
    LET Keep(id) ==
            LET paper == s.processedPapers[id]
            IN  IF rank = Null THEN ~paper.matchResult.matched
                ELSE RankOf(paper.matchResult) = rank
        order == SelectSeq(s.paperOrder, Keep)
    IN  [i \in 1..Len(order) |-> s.processedPapers[order[i]]]

startObserving(s) ==
    IF s.currentAdapter # Null THEN [s EXCEPT !.observing = TRUE] ELSE s

disconnect(s) ==
    IF s.currentAdapter # Null THEN [s EXCEPT !.observing = FALSE] ELSE s

\* ------------------------------------------------------------- DblpService
\* normalizeTitle: lower-case, drop [^\w\s], collapse whitespace, trim
IsPunct(c) == c \in {"!", ":"}

RECURSIVE RemovePunct(_)
RemovePunct(s) ==
    IF s = <<>> THEN <<>>
    ELSE IF IsPunct(Head(s)) THEN RemovePunct(Tail(s))
         ELSE <<Head(s)>> \o RemovePunct(Tail(s))

RECURSIVE CollapseSpaces(_)
CollapseSpaces(s) ==
    IF s = <<>> THEN <<>>
    ELSE IF IsSpace(Head(s))
         THEN <<" ">> \o CollapseSpaces(TrimStart(s))
         ELSE <<Head(s)>> \o CollapseSpaces(Tail(s))

normalizeTitle(title) == Trim(CollapseSpaces(RemovePunct(ToLowerCase(title))))

\* String.prototype.split(' ') as a set of words ("" splits into one empty word)
RECURSIVE SplitWords(_, _)
SplitWords(s, word) ==
    IF s = <<>> THEN {word}
    ELSE IF IsSpace(Head(s)) THEN {word} \cup SplitWords(Tail(s), <<>>)
         ELSE SplitWords(Tail(s), Append(word, Head(s)))

\* titleSimilarity as the fraction num/den (den > 0: both word sets are non-empty)
titleSimilarity(title1, title2) ==
    LET words1 == SplitWords(normalizeTitle(title1), <<>>)
        words2 == SplitWords(normalizeTitle(title2), <<>>)
        intersection == Cardinality(words1 \cap words2)
        union == Cardinality(words1) + Cardinality(words2) - intersection
    IN  IF union > 0 THEN [num |-> intersection, den |-> union]
        ELSE [num |-> 0, den |-> 1]

SimGreater(a, b) == a.num * b.den > b.num * a.den

\* similarity < 0.5
SimBelowHalf(a) == 2 * a.num < a.den

\* A DblpResult; an absent timedOut is held as FALSE (it is only ever tested
\* for truthiness)
NotFoundResult ==
    [found |-> FALSE, venue |-> Null, year |-> Null, dblpUrl |-> Null,
     error |-> Undefined, timedOut |-> FALSE]

NoHit == [title |-> <<>>, venue |-> Null, year |-> Null, url |-> Null]

\* The loop with `similarity >= bestSimilarity`: the latest of the best hits
RECURSIVE BestHitLatest(_, _, _, _)
BestHitLatest(hits, searchTitle, bestMatch, bestSimilarity) ==
    IF hits = <<>> THEN [hit |-> bestMatch, sim |-> bestSimilarity]
    ELSE LET hit == Head(hits)
             similarity == titleSimilarity(searchTitle, hit.title)
         IN  IF hit.title # <<>> /\ ~SimGreater(bestSimilarity, similarity)
             THEN BestHitLatest(Tail(hits), searchTitle, hit, similarity)
             ELSE BestHitLatest(Tail(hits), searchTitle, bestMatch, bestSimilarity)

\* The loop of parseResponse: the best hit so far and its similarity
RECURSIVE BestHit(_, _, _, _)
BestHit(hits, searchTitle, bestMatch, bestSimilarity) ==
    IF hits = <<>> THEN [hit |-> bestMatch, sim |-> bestSimilarity]
    ELSE LET hit == Head(hits)
             similarity == titleSimilarity(searchTitle, hit.title)
         IN  IF hit.title # <<>> /\ SimGreater(similarity, bestSimilarity)
             THEN BestHit(Tail(hits), searchTitle, hit, similarity)
             ELSE BestHit(Tail(hits), searchTitle, bestMatch, bestSimilarity)

parseResponse(hits, searchTitle) ==
    IF Len(hits) = 0 THEN NotFoundResult
    ELSE LET best == BestHit(hits, searchTitle, NoHit, [num |-> 0, den |-> 1])
         IN  IF best.hit = NoHit \/ SimBelowHalf(best.sim)
             THEN NotFoundResult
             ELSE [found |-> TRUE, venue |-> best.hit.venue,
                   year |-> best.hit.year, dblpUrl |-> best.hit.url,
                   error |-> Undefined, timedOut |-> FALSE]

\* The message of the Error that rejects the request promise, "" on success
RejectMessage(response) ==
    CASE response.kind = "timeout" -> "Request timeout"
      [] response.kind = "error"   -> "Network error: Unknown"
      [] response.status # 200     -> "DBLP API returned status 500"
      [] ~response.parses          -> "Failed to parse DBLP response"
      [] OTHER                     -> ""

\* A test that takes every rejection for a timeout
IncludesAnything(message) == message # ""

\* error.message.includes('timeout')
IncludesTimeout(message) == message \in {"Request timeout"}

\* CacheManager (core/cache-manager, not in this tree): a key/value store
CacheGet(c, key) == IF key \in DOMAIN c THEN c[key] ELSE [null |-> TRUE]

\* a store that forgets what it is given
CacheSetDropping(c, key, value) == c

CacheSet(c, key, value) == MapSet(c, key, value)

CacheClear(c) == [x \in {} |-> NotFoundResult]

CacheNull == [null |-> TRUE]

EmptyTitleResult ==
    [found |-> FALSE, venue |-> Null, year |-> Null, dblpUrl |-> Null,
     error |-> "Empty title provided", timedOut |-> FALSE]

NoResult == [none |-> TRUE]

\* queryByTitle that goes to the network without a look at the cache
queryByTitleStartUncached(c, title, getThrows) ==
    [pc |-> "net", result |-> NoResult]

\* queryByTitle that looks into the cache before it tests the title
queryByTitleStartCacheFirst(c, title, getThrows) ==
    IF getThrows THEN [pc |-> "rej", result |-> NoResult]
    ELSE LET cached == CacheGet(c, generateCacheKey(title))
         IN  IF cached # CacheNull
             THEN [pc |-> "res", result |-> cached]
             ELSE IF title = <<>> \/ Len(Trim(title)) = 0
                  THEN [pc |-> "res", result |-> EmptyTitleResult]
                  ELSE [pc |-> "net", result |-> NoResult]

\* queryByTitle that asks again for a title cached as not found
queryByTitleStartRefreshing(c, title, getThrows) ==
    IF title = <<>> \/ Len(Trim(title)) = 0
    THEN [pc |-> "res", result |-> EmptyTitleResult]
    ELSE IF getThrows THEN [pc |-> "rej", result |-> NoResult]
    ELSE LET cached == CacheGet(c, generateCacheKey(title))
         IN  IF cached # CacheNull /\ cached.found
             THEN [pc |-> "res", result |-> cached]
             ELSE [pc |-> "net", result |-> NoResult]

\* queryByTitle up to its await: the call either has its result at once
\* (pc "res"), has a request outstanding (pc "net"), or is rejected because
\* the cache store threw on get (pc "rej").
queryByTitleStart(c, title, getThrows) ==
    IF title = <<>> \/ Len(Trim(title)) = 0
    THEN [pc |-> "res", result |-> EmptyTitleResult]
    ELSE IF getThrows THEN [pc |-> "rej", result |-> NoResult]
    ELSE LET cached == CacheGet(c, generateCacheKey(title))
         IN  IF cached # CacheNull
             THEN [pc |-> "res", result |-> cached]
             ELSE [pc |-> "net", result |-> NoResult]

\* queryByTitle that caches the error result too
queryByTitleFinishCachingAll(c, title, response) ==
    LET message == RejectMessage(response)
        result == IF message = "" THEN parseResponse(response.body, title)
                  ELSE [found |-> FALSE, venue |-> Null, year |-> Null,
                        dblpUrl |-> Null, error |-> message,
                        timedOut |-> IncludesTimeout(message)]
    IN  [result |-> result,
         cache |-> CacheSet(c, generateCacheKey(title), result)]

\* queryByTitle after its await: the result returned and the cache after it
queryByTitleFinish(c, title, response) ==
    LET message == RejectMessage(response)
    IN  IF message = ""
        THEN LET result == parseResponse(response.body, title)
             IN  [result |-> result,
                  cache |-> CacheSet(c, generateCacheKey(title), result)]
        ELSE [result |-> [found |-> FALSE, venue |-> Null, year |-> Null,
                          dblpUrl |-> Null, error |-> message,
                          timedOut |-> IncludesTimeout(message)],
              cache |-> c]

\* queryBatch. batch.pc: idle (not called), net (awaiting queryByTitle with
\* a request outstanding), delay (awaiting the delay timer), done (returned
\* its Map), rejected (queryByTitle threw). batch.i: the index of the loop,
\* from 1. batch.log: the queryByTitle calls, requests issued, results
\* obtained (with the result), delays begun and delays elapsed, in the
\* order they happened.
NoBatch ==
    [pc |-> "idle", titles |-> <<>>, i |-> 0,
     results |-> [x \in {} |-> NotFoundResult], log |-> <<>>]

LoggedWith(s, ev, result) ==
    [s EXCEPT !.batch.log =
                  Append(@, [ev |-> ev, i |-> s.batch.i, result |-> result])]

Logged(s, ev) == LoggedWith(s, ev, NoResult)

\* results.set(title, result) and the rest of the loop body, with a delay
\* after the last title too
batchResultDelayingAlways(s, result) ==
    LET b == s.batch
        s1 == [LoggedWith(s, "result", result) EXCEPT
                  !.batch.results = MapSet(@, b.titles[b.i], result)]
    IN  [Logged(s1, "delay") EXCEPT !.batch.pc = "delay"]

\* results.set(title, result) and the rest of the loop body, up to the next
\* await or the return
batchResult(s, result) ==
    LET b == s.batch
        s1 == [LoggedWith(s, "result", result) EXCEPT
                  !.batch.results = MapSet(@, b.titles[b.i], result)]
    IN  IF b.i < Len(b.titles)
        THEN [Logged(s1, "delay") EXCEPT !.batch.pc = "delay"]
        ELSE [s1 EXCEPT !.batch.pc = "done"]

\* the loop body for titles[i] up to its next await
batchQuery(s, getThrows) ==
    LET b == s.batch
        q == queryByTitleStart(s.cache, b.titles[b.i], getThrows)
        s1 == Logged(s, "query")
    IN  CASE q.pc = "res" -> batchResult(s1, q.result)
          [] q.pc = "rej" -> [s1 EXCEPT !.batch.pc = "rejected"]
          [] OTHER -> [Logged(s1, "request") EXCEPT !.batch.pc = "net"]

queryBatch(s, titles, getThrows) ==
    LET s1 == [s EXCEPT !.batch = [NoBatch EXCEPT !.titles = titles, !.i = 1]]
    IN  IF Len(titles) = 0 THEN [s1 EXCEPT !.batch.pc = "done"]
        ELSE batchQuery(s1, getThrows)

\* the request of the awaited queryByTitle calls back
batchResponse(s, response) ==
    LET b == s.batch
        r == queryByTitleFinish(s.cache, b.titles[b.i], response)
    IN  batchResult([s EXCEPT !.cache = r.cache], r.result)

\* the timer of delay(delayMs) fires
batchDelayElapsed(s, getThrows) ==
    batchQuery([Logged(s, "elapsed") EXCEPT !.batch.i = @ + 1], getThrows)

\* Hit lists the remote service may answer with
GoodHit == [title |-> <<"a", "b">>, venue |-> "CVPR", year |-> "2017", url |-> "u1"]
BareHit == [title |-> <<"A", "B", "!">>, venue |-> Null, year |-> Null, url |-> Null]
FarHit  == [title |-> <<"b", " ", "a", " ", "a", "b">>, venue |-> "ICDM",
            year |-> "2019", url |-> "u2"]

HalfHit == [title |-> <<"a", "b", " ", "b">>, venue |-> "ICDM", year |-> Null,
            url |-> "u3"]
UntitledHit == [title |-> <<>>, venue |-> "CVPR", year |-> "2020", url |-> "u4"]

HitLists ==
    {<<>>, <<GoodHit>>, <<BareHit>>, <<FarHit>>, <<UntitledHit>>,
     <<FarHit, GoodHit>>, <<BareHit, GoodHit>>, <<HalfHit, FarHit>>,
     <<UntitledHit, FarHit, HalfHit>>}

\* What GM_xmlhttpRequest may call back with: onload (a status, a body that
\* parses as JSON or not, the hit list in it), onerror, ontimeout
Responses ==
    {[kind |-> "load", status |-> 200, parses |-> TRUE, body |-> h] :
        h \in HitLists}
    \cup {[kind |-> "load", status |-> 200, parses |-> FALSE, body |-> <<>>],
          [kind |-> "load", status |-> 500, parses |-> TRUE, body |-> <<>>],
          [kind |-> "error", status |-> 0, parses |-> FALSE, body |-> <<>>],
          [kind |-> "timeout", status |-> 0, parses |-> FALSE, body |-> <<>>]}

\* ----------------------------------------------------------- SettingsStore
\* A group of boolean settings (showRanks, enabledSites) is held as the set
\* of its keys that are true; a partial group, as passed to update and
\* batchUpdate, is a function from some of the keys to BOOLEAN.
SETTINGS_VERSION == 1

SiteKeys == {"arxiv", "dblp", "ieee"}

DEFAULT_SETTINGS ==
    [showRanks |-> Ranks, enabledSites |-> SiteKeys,
     badgePosition |-> "after-title", debugMode |-> FALSE,
     statsExpanded |-> FALSE]

\* A value held in GM storage is a JS value of any type: a record with the
\* type typeof reports for it, but for null, and its value; the fields of an
\* object are the function from its own keys to their values.
JsNull == [type |-> "null"]

JsUndefined == [type |-> "undefined"]

JsBoolean(b) == [type |-> "boolean", bool |-> b]

JsNumber(n) == [type |-> "number", num |-> n]

JsString(str) == [type |-> "string", str |-> str]

JsObject(fields) == [type |-> "object", fields |-> fields]

TypeOf(v) == IF v.type = "null" THEN "object" ELSE v.type

\* !v is false
Truthy(v) ==
    CASE v.type \in {"null", "undefined"} -> FALSE
      [] v.type = "boolean" -> v.bool
      [] v.type = "number" -> v.num # 0
      [] v.type = "string" -> v.str # ""
      [] OTHER -> TRUE

\* o.key, for o neither null nor undefined
Get(o, key) ==
    IF o.type = "object" /\ key \in DOMAIN o.fields THEN o.fields[key]
    ELSE JsUndefined

\* o?.key
OptGet(o, key) ==
    IF o.type \in {"null", "undefined"} THEN JsUndefined ELSE Get(o, key)

\* GM_getValue(SETTINGS_STORAGE_KEY, null) when nothing was stored
NoStored == JsNull

cloneSettings(x) ==
    [showRanks |-> x.showRanks, enabledSites |-> x.enabledSites,
     badgePosition |-> x.badgePosition, debugMode |-> x.debugMode,
     statsExpanded |-> x.statsExpanded]

\* a group of boolean settings, and a Settings object, as JS values
JsGroup(keys, group) == JsObject([k \in keys |-> JsBoolean(k \in group)])

JsSettings(x) ==
    JsObject([showRanks |-> JsGroup(Ranks, x.showRanks),
              enabledSites |-> JsGroup(SiteKeys, x.enabledSites),
              badgePosition |-> JsString(x.badgePosition),
              debugMode |-> JsBoolean(x.debugMode),
              statsExpanded |-> JsBoolean(x.statsExpanded)])

\* this._settings of the store in state s
SettingsOf(s) ==
    [showRanks |-> s.showRanks, enabledSites |-> s.settings.enabledSites,
     badgePosition |-> s.settings.badgePosition,
     debugMode |-> s.settings.debugMode,
     statsExpanded |-> s.settings.statsExpanded]

\* Object.assign(group, partial)
ObjectAssign(group, partial) ==
    (group \ {k \in DOMAIN partial : ~partial[k]})
        \cup {k \in DOMAIN partial : partial[k]}

isValidBadgePosition(value) ==
    /\ TypeOf(value) = "string"
    /\ value.str \in {"after-title", "after-authors", "inline"}

\* typeof v === 'boolean' ? v : dflt
BooleanOr(v, dflt) == IF TypeOf(v) = "boolean" THEN v.bool ELSE dflt

\* validateAndMigrateSettings accepting a stored value of any version
validateAndMigrateSettingsAnyVersion(stored) ==
    IF ~Truthy(stored) \/ TypeOf(stored) # "object"
    THEN cloneSettings(DEFAULT_SETTINGS)
    ELSE LET stored_settings == Get(stored, "settings")
             stored_showRanks == Get(stored_settings, "showRanks")
             stored_enabledSites == Get(stored_settings, "enabledSites")
             stored_badgePosition == Get(stored_settings, "badgePosition")
         IN  IF ~Truthy(stored_settings) \/ TypeOf(stored_settings) # "object"
             THEN cloneSettings(DEFAULT_SETTINGS)
             ELSE [showRanks |->
                       {k \in Ranks :
                           BooleanOr(OptGet(stored_showRanks, k),
                                     k \in DEFAULT_SETTINGS.showRanks)},
                   enabledSites |->
                       {k \in SiteKeys :
                           BooleanOr(OptGet(stored_enabledSites, k),
                                     k \in DEFAULT_SETTINGS.enabledSites)},
                   badgePosition |->
                       IF isValidBadgePosition(stored_badgePosition)
                       THEN stored_badgePosition.str
                       ELSE DEFAULT_SETTINGS.badgePosition,
                   debugMode |->
                       BooleanOr(Get(stored_settings, "debugMode"),
                                 DEFAULT_SETTINGS.debugMode),
                   statsExpanded |->
                       BooleanOr(Get(stored_settings, "statsExpanded"),
                                 DEFAULT_SETTINGS.statsExpanded)]

validateAndMigrateSettings(stored) ==
    IF ~Truthy(stored) \/ TypeOf(stored) # "object"
    THEN cloneSettings(DEFAULT_SETTINGS)
    ELSE LET version == Get(stored, "version")
             stored_settings == Get(stored, "settings")
             stored_showRanks == Get(stored_settings, "showRanks")
             stored_enabledSites == Get(stored_settings, "enabledSites")
             stored_badgePosition == Get(stored_settings, "badgePosition")
         IN  IF TypeOf(version) # "number"
                  \/ version.num > SETTINGS_VERSION
             THEN cloneSettings(DEFAULT_SETTINGS)
             ELSE IF ~Truthy(stored_settings)
                       \/ TypeOf(stored_settings) # "object"
             THEN cloneSettings(DEFAULT_SETTINGS)
             ELSE [showRanks |->
                       {k \in Ranks :
                           BooleanOr(OptGet(stored_showRanks, k),
                                     k \in DEFAULT_SETTINGS.showRanks)},
                   enabledSites |->
                       {k \in SiteKeys :
                           BooleanOr(OptGet(stored_enabledSites, k),
                                     k \in DEFAULT_SETTINGS.enabledSites)},
                   badgePosition |->
                       IF isValidBadgePosition(stored_badgePosition)
                       THEN stored_badgePosition.str
                       ELSE DEFAULT_SETTINGS.badgePosition,
                   debugMode |->
                       BooleanOr(Get(stored_settings, "debugMode"),
                                 DEFAULT_SETTINGS.debugMode),
                   statsExpanded |->
                       BooleanOr(Get(stored_settings, "statsExpanded"),
                                 DEFAULT_SETTINGS.statsExpanded)]

applySettings(s, x) ==
    [s EXCEPT !.showRanks = ObjectAssign(@, [k \in Ranks |-> k \in x.showRanks]),
              !.settings.enabledSites =
                  ObjectAssign(@, [k \in SiteKeys |-> k \in x.enabledSites]),
              !.settings.badgePosition = x.badgePosition,
              !.settings.debugMode = x.debugMode,
              !.settings.statsExpanded = x.statsExpanded]

\* SettingsStore.load: when GM_getValue throws the settings stay as they
\* are
loadSettings(s, getThrows) ==
    IF getThrows THEN [s EXCEPT !.loaded = TRUE]
    ELSE [applySettings(s, validateAndMigrateSettings(s.gmStorage))
              EXCEPT !.loaded = TRUE]

\* The outcome of a SettingsStore call before anything went wrong
NoCall == [threw |-> FALSE, errors |-> <<>>]

\* save(): the stored value (its lastModified time stamp left out); when
\* GM_setValue throws, nothing is stored, the error is logged and thrown
\* again: the promise of save() is rejected
save(s, setThrows) ==
    IF setThrows
    THEN [s EXCEPT !.storeCall =
             [threw |-> TRUE,
              errors |-> Append(@.errors, "Error saving settings:")]]
    ELSE [s EXCEPT !.gmStorage =
             JsObject([version |-> JsNumber(SETTINGS_VERSION),
                       settings |-> JsSettings(cloneSettings(SettingsOf(s)))])]

\* this.save().catch(error => console.error(message, error))
catchSave(s, message) ==
    IF s.storeCall.threw
    THEN [s EXCEPT !.storeCall =
             [threw |-> FALSE, errors |-> Append(@.errors, message)]]
    ELSE s

\* SettingsStore.reset
resetSettings(s, setThrows) ==
    catchSave(save(applySettings(s, cloneSettings(DEFAULT_SETTINGS)), setThrows),
              "Error saving reset settings:")

\* update that takes its change back when the write fails
updateRollingBack(s, key, value, setThrows) ==
    LET s1 == CASE key = "showRanks" ->
                     [s EXCEPT !.showRanks = ObjectAssign(@, value)]
                [] key = "enabledSites" ->
                     [s EXCEPT !.settings.enabledSites = ObjectAssign(@, value)]
                [] OTHER -> [s EXCEPT !.settings[key] = value]
    IN  catchSave(save(IF setThrows THEN s ELSE s1, setThrows),
                  "Error auto-saving settings:")

update(s, key, value, setThrows) ==
    LET s1 == CASE key = "showRanks" ->
                     [s EXCEPT !.showRanks = ObjectAssign(@, value)]
                [] key = "enabledSites" ->
                     [s EXCEPT !.settings.enabledSites = ObjectAssign(@, value)]
                [] OTHER -> [s EXCEPT !.settings[key] = value]
    IN  catchSave(save(s1, setThrows), "Error auto-saving settings:")

batchUpdate(s, updates, setThrows) ==
    LET Has(k) == k \in DOMAIN updates
        s1 == IF Has("showRanks")
              THEN [s EXCEPT !.showRanks = ObjectAssign(@, updates.showRanks)]
              ELSE s
        s2 == IF Has("enabledSites")
              THEN [s1 EXCEPT !.settings.enabledSites =
                                  ObjectAssign(@, updates.enabledSites)]
              ELSE s1
        s3 == IF Has("badgePosition")
              THEN [s2 EXCEPT !.settings.badgePosition = updates.badgePosition]
              ELSE s2
        s4 == IF Has("debugMode")
              THEN [s3 EXCEPT !.settings.debugMode = updates.debugMode]
              ELSE s3
        s5 == IF Has("statsExpanded")
              THEN [s4 EXCEPT !.settings.statsExpanded = updates.statsExpanded]
              ELSE s4
    IN  catchSave(save(s5, setThrows), "Error auto-saving settings:")

\* setRankDisplay that saves before it assigns
setRankDisplaySavingFirst(s, rank, enabled, setThrows) ==
    LET s1 == catchSave(save(s, setThrows),
                        "Error saving rank display setting:")
    IN  [s1 EXCEPT !.showRanks = IF enabled THEN @ \cup {rank} ELSE @ \ {rank}]

setRankDisplay(s, rank, enabled, setThrows) ==
    catchSave(save([s EXCEPT !.showRanks =
                                 IF enabled THEN @ \cup {rank} ELSE @ \ {rank}],
                   setThrows),
              "Error saving rank display setting:")

setSiteEnabled(s, site, enabled, setThrows) ==
    catchSave(save([s EXCEPT !.settings.enabledSites =
                                 IF enabled THEN @ \cup {site} ELSE @ \ {site}],
                   setThrows),
              "Error saving site enable setting:")

\* ------------------------------------------------------ App: lookup queue
\* task(): the async closure runs up to the await inside queryByTitle
StartTask(s, task, getThrows) ==
    LET q == queryByTitleStart(s.cache, task.title, getThrows)
    IN  [s EXCEPT !.tasks = @ \cup
            {[tid |-> task.tid, id |-> task.id, title |-> task.title,
              epoch |-> task.epoch, pc |-> q.pc, result |-> q.result]}]

drainGuard(s) ==
    s.dblpActiveCount < DBLP_LOOKUP_CONCURRENCY /\ Len(s.dblpQueue) > 0

\* drainDblpQueue that takes the task pushed last (pop() for shift())
RECURSIVE drainDblpQueueLastFirst(_, _)
drainDblpQueueLastFirst(s, getThrows) ==
    IF drainGuard(s)
    THEN LET task == s.dblpQueue[Len(s.dblpQueue)]
             s1 == [s EXCEPT !.dblpQueue = SubSeq(@, 1, Len(@) - 1),
                             !.dblpActiveCount = @ + 1]
         IN  drainDblpQueueLastFirst(StartTask(s1, task, getThrows), getThrows)
    ELSE s

\* drainDblpQueue without its dblpActiveCount++
RECURSIVE drainDblpQueueUncounted(_, _)
drainDblpQueueUncounted(s, getThrows) ==
    IF drainGuard(s)
    THEN LET task == Head(s.dblpQueue)
             s1 == [s EXCEPT !.dblpQueue = Tail(@)]
         IN  drainDblpQueueUncounted(StartTask(s1, task, getThrows), getThrows)
    ELSE s

RECURSIVE drainDblpQueue(_, _)
drainDblpQueue(s, getThrows) ==
    IF drainGuard(s)
    THEN LET task == Head(s.dblpQueue)
             s1 == [s EXCEPT !.dblpQueue = Tail(@),
                             !.dblpActiveCount = @ + 1]
         IN  drainDblpQueue(StartTask(s1, task, getThrows), getThrows)
    ELSE s

\* enqueueDblpLookup without its drainDblpQueue() call
enqueueDblpLookupOnly(s, task, getThrows) ==
    [s EXCEPT !.dblpQueue = Append(@, task)]

enqueueDblpLookup(s, task, getThrows) ==
    drainDblpQueue([s EXCEPT !.dblpQueue = Append(@, task)], getThrows)

scheduleUiUpdate(s) ==
    IF s.pendingUiUpdate THEN s ELSE [s EXCEPT !.pendingUiUpdate = TRUE]

updateStats(s) == [s EXCEPT !.stats = getStatistics(s)]

\* ------------------------------------------------------------- App: badges
\* shouldLookupDblp without the test of the site
shouldLookupDblpAnySite(s, paper) ==
    /\ ~(paper.venue # Null /\ paper.venue # "")
    /\ paper.title # <<>>

shouldLookupDblp(s, paper) ==
    /\ s.currentAdapter = "arxiv"
    /\ ~(paper.venue # Null /\ paper.venue # "")
    /\ paper.title # <<>>

UnknownVenue == "unknown-venue"

\* badgeState.error: undefined, the timeout text, or the failure text that
\* carries the error message
NoError == [text |-> Undefined, detail |-> ""]
TimeoutText == [text |-> "DBLP timeout", detail |-> ""]
FailureText(error) == [text |-> "DBLP failed", detail |-> error]

\* a || b || c on venue strings
FirstTruthy(a, b, c) ==
    IF a # Null /\ a # "" THEN a
    ELSE IF b # Null /\ b # "" THEN b ELSE c

RankHidden(s, rank) ==
    \/ rank = "A" /\ "A" \notin s.showRanks
    \/ rank = "B" /\ "B" \notin s.showRanks
    \/ rank = "C" /\ "C" \notin s.showRanks
    \/ rank = Null /\ "unknown" \notin s.showRanks

\* mountBadge without `if (mountedBadges.has(paper.id)) return`
mountBadgeAgain(s, id, getThrows) ==
    LET paper == s.processedPapers[id]
        rank == RankOf(paper.matchResult)
        entry == paper.matchResult.entry
        cleaned == IF paper.matchResult.cleanedVenue # ""
                   THEN paper.matchResult.cleanedVenue ELSE UnknownVenue
        badgeState ==
            [rank |-> rank,
             venue |-> FirstTruthy(entry.abbr, paper.venue, cleaned),
             venueFull |-> FirstTruthy(entry.name, paper.venue, cleaned),
             year |-> IF paper.year # Null /\ paper.year # ""
                      THEN paper.year ELSE Null,
             venueSource |-> paper.venueSource,
             confidence |-> paper.matchResult.confidence,
             dblpUrl |-> Undefined, loading |-> FALSE, error |-> NoError]
    IN  IF FALSE THEN s
        ELSE IF RankHidden(s, rank) THEN s
        ELSE LET s1 == [s EXCEPT !.mountedBadges = MapSet(@, id, badgeState),
                                 !.badgeContainers[id] = @ + 1]
                 s2 == markAsProcessed(s1, id)
             IN  IF shouldLookupDblp(s2, paper) /\ id \notin s2.dblpInFlight
                 THEN LET s3 == [s2 EXCEPT
                                   !.dblpInFlight = @ \cup {id},
                                   !.mountedBadges[id].loading = TRUE,
                                   !.mountedBadges[id].error = NoError,
                                   !.nextTask = @ + 1]
                          task == [tid |-> s2.nextTask, id |-> id,
                                   title |-> paper.title,
                                   epoch |-> s2.processingEpoch]
                      IN  enqueueDblpLookup(s3, task, getThrows)
                 ELSE s2

mountBadge(s, id, getThrows) ==
    LET paper == s.processedPapers[id]
        rank == RankOf(paper.matchResult)
        entry == paper.matchResult.entry
        cleaned == IF paper.matchResult.cleanedVenue # ""
                   THEN paper.matchResult.cleanedVenue ELSE UnknownVenue
        badgeState ==
            [rank |-> rank,
             venue |-> FirstTruthy(entry.abbr, paper.venue, cleaned),
             venueFull |-> FirstTruthy(entry.name, paper.venue, cleaned),
             year |-> IF paper.year # Null /\ paper.year # ""
                      THEN paper.year ELSE Null,
             venueSource |-> paper.venueSource,
             confidence |-> paper.matchResult.confidence,
             dblpUrl |-> Undefined, loading |-> FALSE, error |-> NoError]
    IN  IF id \in DOMAIN s.mountedBadges THEN s
        ELSE IF RankHidden(s, rank) THEN s
        ELSE LET s1 == [s EXCEPT !.mountedBadges = MapSet(@, id, badgeState),
                                 !.badgeContainers[id] = @ + 1]
                 s2 == markAsProcessed(s1, id)
             IN  IF shouldLookupDblp(s2, paper) /\ id \notin s2.dblpInFlight
                 THEN LET s3 == [s2 EXCEPT
                                   !.dblpInFlight = @ \cup {id},
                                   !.mountedBadges[id].loading = TRUE,
                                   !.mountedBadges[id].error = NoError,
                                   !.nextTask = @ + 1]
                          task == [tid |-> s2.nextTask, id |-> id,
                                   title |-> paper.title,
                                   epoch |-> s2.processingEpoch]
                      IN  enqueueDblpLookup(s3, task, getThrows)
                 ELSE s2

\* The loop of processPapers over the ledger, in Map order
RECURSIVE MountAll(_, _, _)
MountAll(s, order, getThrows) ==
    IF order = <<>> THEN s
    ELSE LET id == Head(order)
             s1 == IF ~s.processedPapers[id].processed
                   THEN mountBadge(s, id, getThrows) ELSE s
         IN  MountAll(s1, Tail(order), getThrows)

processPapers(s, page, getThrows) ==
    LET s1 == processCurrentPage(s, page)
    IN  updateStats(MountAll(s1, s1.paperOrder, getThrows))

\* element.remove() for the container of every entry of mountedBadges
RemoveElements(containers, badges) ==
    [id \in Ids |-> IF id \in DOMAIN badges /\ containers[id] > 0
                    THEN containers[id] - 1 ELSE containers[id]]

\* cleanup() that also gives back the slots of the lookups in flight
cleanupFreesSlots(s) ==
    disconnect([s EXCEPT !.processingEpoch = @ + 1,
                         !.dblpQueue = <<>>,
                         !.dblpActiveCount = 0,
                         !.dblpInFlight = {},
                         !.pendingUiUpdate = FALSE,
                         !.mountedBadges = EmptyMap,
                         !.badgeContainers = RemoveElements(@, s.mountedBadges)])

\* cleanup() that leaves the pending tasks in the queue
cleanupKeepsQueue(s) ==
    disconnect([s EXCEPT !.processingEpoch = @ + 1,
                         !.dblpInFlight = {},
                         !.pendingUiUpdate = FALSE,
                         !.mountedBadges = EmptyMap,
                         !.badgeContainers = RemoveElements(@, s.mountedBadges)])

\* cleanup() that does not advance the epoch
cleanupKeepsEpoch(s) ==
    disconnect([s EXCEPT !.dblpQueue = <<>>,
                         !.dblpInFlight = {},
                         !.pendingUiUpdate = FALSE,
                         !.mountedBadges = EmptyMap,
                         !.badgeContainers = RemoveElements(@, s.mountedBadges)])

cleanup(s) ==
    disconnect([s EXCEPT !.processingEpoch = @ + 1,
                         !.dblpQueue = <<>>,
                         !.dblpInFlight = {},
                         !.pendingUiUpdate = FALSE,
                         !.mountedBadges = EmptyMap,
                         !.badgeContainers = RemoveElements(@, s.mountedBadges)])

\* The continuation without its epoch test
IsStaleNever(s, t) == FALSE

\* if (epochAtEnqueue !== processingEpoch) return
IsStale(s, t) == t.epoch # s.processingEpoch

\* The continuation that takes the returned year whatever the paper has
lookupContinuationTakingYear(s, t) ==
    LET result == t.result
        paper == s.processedPapers[t.id]
    IN  IF IsStale(s, t) THEN s
        ELSE IF ~HasPaper(s, t.id) \/ t.id \notin DOMAIN s.mountedBadges THEN s
        ELSE IF result.error # Undefined /\ result.error # ""
        THEN [s EXCEPT
                !.mountedBadges[t.id].loading = FALSE,
                !.mountedBadges[t.id].error =
                    IF result.timedOut THEN TimeoutText
                    ELSE FailureText(result.error)]
        ELSE IF ~result.found \/ result.venue = Null \/ result.venue = ""
        THEN [s EXCEPT !.mountedBadges[t.id].loading = FALSE]
        ELSE LET year == IF result.year # Null /\ result.year # ""
                         THEN result.year ELSE paper.year
                 matchResult == Match(result.venue)
                 entry == matchResult.entry
                 s1 == [s EXCEPT
                          !.processedPapers[t.id].venue = result.venue,
                          !.processedPapers[t.id].venueSource = "dblp",
                          !.processedPapers[t.id].year = year,
                          !.processedPapers[t.id].matchResult = matchResult,
                          !.mountedBadges[t.id] =
                              [rank |-> entry.rank,
                               venue |-> FirstTruthy(entry.abbr, result.venue, result.venue),
                               venueFull |-> FirstTruthy(entry.name, result.venue, result.venue),
                               year |-> FirstTruthy(year, result.year, Null),
                               venueSource |-> "dblp",
                               confidence |-> matchResult.confidence,
                               dblpUrl |-> IF result.dblpUrl # Null /\ result.dblpUrl # ""
                                           THEN result.dblpUrl ELSE Undefined,
                               loading |-> FALSE, error |-> NoError]]
             IN  scheduleUiUpdate(s1)

\* The body of a lookup task after `await dblpService.queryByTitle(...)`,
\* without its finally clause. paper and badgeState are the objects the
\* closure captured: the ledger entry and the badge of t.id, as long as the
\* ledger and the badges have not been emptied since.
lookupContinuation(s, t) ==
    LET result == t.result
        paper == s.processedPapers[t.id]
    IN  IF IsStale(s, t) THEN s
        ELSE IF ~HasPaper(s, t.id) \/ t.id \notin DOMAIN s.mountedBadges THEN s
        ELSE IF result.error # Undefined /\ result.error # ""
        THEN [s EXCEPT
                !.mountedBadges[t.id].loading = FALSE,
                !.mountedBadges[t.id].error =
                    IF result.timedOut THEN TimeoutText
                    ELSE FailureText(result.error)]
        ELSE IF ~result.found \/ result.venue = Null \/ result.venue = ""
        THEN [s EXCEPT !.mountedBadges[t.id].loading = FALSE]
        ELSE LET year == IF (paper.year = Null \/ paper.year = "")
                            /\ result.year # Null /\ result.year # ""
                         THEN result.year ELSE paper.year
                 matchResult == Match(result.venue)
                 entry == matchResult.entry
                 s1 == [s EXCEPT
                          !.processedPapers[t.id].venue = result.venue,
                          !.processedPapers[t.id].venueSource = "dblp",
                          !.processedPapers[t.id].year = year,
                          !.processedPapers[t.id].matchResult = matchResult,
                          !.mountedBadges[t.id] =
                              [rank |-> entry.rank,
                               venue |-> FirstTruthy(entry.abbr, result.venue, result.venue),
                               venueFull |-> FirstTruthy(entry.name, result.venue, result.venue),
                               year |-> FirstTruthy(year, result.year, Null),
                               venueSource |-> "dblp",
                               confidence |-> matchResult.confidence,
                               dblpUrl |-> IF result.dblpUrl # Null /\ result.dblpUrl # ""
                                           THEN result.dblpUrl ELSE Undefined,
                               loading |-> FALSE, error |-> NoError]]
             IN  scheduleUiUpdate(s1)

\* -------------------------------------------------------------------- Init
AllRanks == Ranks

ZeroStats == [total |-> 0, byRank |-> [r \in Ranks |-> 0]]

Init ==
    /\ marker = {}
    /\ currentAdapter = Null
    /\ observing = FALSE
    /\ processedPapers = EmptyMap
    /\ paperOrder = <<>>
    /\ processedElements = {}
    /\ phase = "setup"
    /\ showRanks = AllRanks
    /\ processingEpoch = 0
    /\ dblpQueue = <<>>
    /\ dblpActiveCount = 0
    /\ dblpInFlight = {}
    /\ tasks = {}
    /\ nextTask = 1
    /\ mountedBadges = EmptyMap
    /\ pendingUiUpdate = FALSE
    /\ stats = ZeroStats
    /\ cache = EmptyMap
    /\ calls = {}
    /\ settings = [enabledSites |-> DEFAULT_SETTINGS.enabledSites,
                   badgePosition |-> DEFAULT_SETTINGS.badgePosition,
                   debugMode |-> DEFAULT_SETTINGS.debugMode,
                   statsExpanded |-> DEFAULT_SETTINGS.statsExpanded]
    /\ gmStorage = NoStored
    /\ loaded = FALSE
    /\ adapters = <<>>
    /\ factories = <<>>
    /\ batch = NoBatch
    /\ badgeContainers = [id \in Ids |-> 0]
    /\ storeCall = NoCall
    /\ last = [op |-> "init", repeat |-> FALSE, marks |-> {}, stripped |-> {}]

\* ------------------------------------------------------------- App actions
\* Event loop: cacheManager.get/set are synchronous, so once a request has
\* called back (or a task has returned without awaiting the network) the rest
\* of the task runs in promise microtasks, which all run before the next
\* event (lifecycle hook, watcher, observer callback, timer, request
\* callback) is delivered.
MicrotasksDrained == \A t \in tasks : t.pc = "net"

\* onMounted, once settingsStore.load() has resolved: initialize() picks the
\* adapter that matches the page URL (site), or none
OnMounted(site, page, getThrows) ==
    /\ phase = "setup"
    /\ MicrotasksDrained
    /\ LET s0 == [Cur EXCEPT !.currentAdapter = site]
           s1 == IF site # Null
                 THEN processPapers(startObserving(s0), page, getThrows)
                 ELSE s0
       IN  Commit(s1)
    /\ phase' = "mounted"
    /\ UNCHANGED <<calls, last>>

\* The MutationObserver callback of the adapter: handlePageChange
HandlePageChange(page, getThrows) ==
    /\ phase = "mounted"
    /\ MicrotasksDrained
    /\ observing
    /\ Commit(processPapers(Cur, page, getThrows))
    /\ UNCHANGED <<phase, calls, last>>

\* The settings the user may switch between
ShowRanksChoices == {AllRanks, AllRanks \ {"A"}}

\* The callback of watch(showRanks) without its siteManager.reset(true)
watchShowRanksWithoutReset(s, page, getThrows) ==
    startObserving(processPapers(cleanup(s), page, getThrows))

\* The callback of watch(showRanks): cleanup, reset(true), processPapers,
\* startObserving
watchShowRanks(s, page, getThrows) ==
    LET s1 == reset(cleanup(s), TRUE)
        s2 == processPapers(s1, page, getThrows)
    IN  startObserving(s2)

\* settings.showRanks changes and the watcher runs
ShowRanksChanged(ranks, page, getThrows) ==
    /\ phase \in {"setup", "mounted"}
    /\ MicrotasksDrained
    /\ ranks # showRanks
    /\ processingEpoch < MaxEpoch
    /\ Commit(watchShowRanks([Cur EXCEPT !.showRanks = ranks], page, getThrows))
    /\ UNCHANGED <<phase, calls, last>>

\* onUnmounted
OnUnmounted ==
    /\ phase = "mounted"
    /\ MicrotasksDrained
    /\ processingEpoch < MaxEpoch
    /\ Commit(cleanup(Cur))
    /\ phase' = "unmounted"
    /\ UNCHANGED <<calls, last>>

\* The request calls back, and the result of a lookup of an earlier epoch is
\* not written to the cache
LookupRespondsCurrentOnly(t, response) ==
    /\ t \in tasks
    /\ t.pc = "net"
    /\ MicrotasksDrained
    /\ LET r == queryByTitleFinish(cache, t.title, response)
       IN  /\ cache' = IF t.epoch = processingEpoch THEN r.cache ELSE cache
           /\ tasks' = (tasks \ {t}) \cup
                        {[t EXCEPT !.pc = "res", !.result = r.result]}
    /\ UNCHANGED <<marker, currentAdapter, observing, processedPapers,
                   paperOrder, processedElements, phase, showRanks,
                   processingEpoch, dblpQueue, dblpActiveCount, dblpInFlight,
                   nextTask, mountedBadges, pendingUiUpdate, stats, calls,
                   settings, gmStorage, loaded,
                   adapters, factories, batch, badgeContainers,
                   storeCall,
                   last>>

\* The request of a running lookup calls back; queryByTitle resumes, caches
\* a successful result and returns
LookupResponds(t, response) ==
    /\ t \in tasks
    /\ t.pc = "net"
    /\ MicrotasksDrained
    /\ LET r == queryByTitleFinish(cache, t.title, response)
       IN  /\ cache' = r.cache
           /\ tasks' = (tasks \ {t}) \cup
                        {[t EXCEPT !.pc = "res", !.result = r.result]}
    /\ UNCHANGED <<marker, currentAdapter, observing, processedPapers,
                   paperOrder, processedElements, phase, showRanks,
                   processingEpoch, dblpQueue, dblpActiveCount, dblpInFlight,
                   nextTask, mountedBadges, pendingUiUpdate, stats, calls,
                   settings, gmStorage, loaded,
                   adapters, factories, batch, badgeContainers,
                   storeCall,
                   last>>

\* The task closure resumes after its await and runs to its end, through
\* its finally clause
LookupSettles(t) ==
    /\ t \in tasks
    /\ t.pc \in {"res", "rej"}
    /\ LET s0 == IF t.pc = "res" THEN lookupContinuation(Cur, t) ELSE Cur
           s1 == [s0 EXCEPT !.dblpInFlight = @ \ {t.id},
                            !.tasks = (@ \ {t}) \cup {[t EXCEPT !.pc = "fin"]}]
       IN  Commit(s1)
    /\ UNCHANGED <<phase, calls, last>>

\* The .finally handler without its drainDblpQueue() call
LookupFinallyNoDrain(t, getThrows) ==
    /\ t \in tasks
    /\ t.pc = "fin"
    /\ Commit([Cur EXCEPT !.tasks = @ \ {t}, !.dblpActiveCount = @ - 1])
    /\ UNCHANGED <<phase, calls, last>>

\* The handlers without the .catch: the .finally of a rejected task is never
\* reached, the slot stays taken and the queue is not drained
LookupFinallyUncaught(t, getThrows) ==
    /\ t \in tasks
    /\ t.pc = "fin"
    /\ LET s0 == [Cur EXCEPT !.tasks = @ \ {t},
                             !.dblpActiveCount = @ - 1]
       IN  IF t.result = NoResult
           THEN Commit([Cur EXCEPT !.tasks = @ \ {t}])
           ELSE Commit(drainDblpQueue(s0, getThrows))
    /\ UNCHANGED <<phase, calls, last>>

\* The .catch/.finally handlers of drainDblpQueue
LookupFinally(t, getThrows) ==
    /\ t \in tasks
    /\ t.pc = "fin"
    /\ LET s0 == [Cur EXCEPT !.tasks = @ \ {t},
                             !.dblpActiveCount = @ - 1]
       IN  Commit(drainDblpQueue(s0, getThrows))
    /\ UNCHANGED <<phase, calls, last>>

\* The timer armed by scheduleUiUpdate fires
UiUpdateTimer ==
    /\ pendingUiUpdate
    /\ MicrotasksDrained
    /\ Commit(updateStats([Cur EXCEPT !.pendingUiUpdate = FALSE]))
    /\ UNCHANGED <<phase, calls, last>>

SiteChoices == Sites \cup {Null}

\* The pages explored for the scans of the orchestrator
AppPages ==
    {<<>>, <<"e1">>, <<"e2", "e1">>, <<"e1", "e3">>, <<"e3", "e1", "e4">>,
     <<"e4">>}

\* The responses explored for the lookups of the orchestrator
AppResponses ==
    {r \in Responses :
        \/ r.kind = "timeout"
        \/ r.kind = "load" /\ r.status = 500
        \/ r.kind = "load" /\ r.status = 200 /\ r.parses
             /\ r.body \in {<<>>, <<GoodHit>>}}

Next ==
    \/ \E site \in SiteChoices, page \in AppPages, g \in BOOLEAN :
           OnMounted(site, page, g)
    \/ \E page \in AppPages, g \in BOOLEAN : HandlePageChange(page, g)
    \/ \E ranks \in ShowRanksChoices, page \in AppPages, g \in BOOLEAN :
           ShowRanksChanged(ranks, page, g)
    \/ OnUnmounted
    \/ \E t \in tasks, response \in AppResponses : LookupResponds(t, response)
    \/ \E t \in tasks : LookupSettles(t)
    \/ \E t \in tasks, g \in BOOLEAN : LookupFinally(t, g)
    \/ UiUpdateTimer

Spec == Init /\ [][Next]_vars

\* ---------------------------------------- SiteManager called by a client
\* last.op: the last call; last.marks: the ids markAsProcessed was called
\* with since the ledger was last emptied; last.repeat: the last call was a
\* markAsProcessed of such an id, or a scan of a page with a paper seen
\* before (its id in the ledger, or its element carrying the marker);
\* last.stripped: the ids of the processed entries the last call, or the call
\* before the scans that came last, a reset(true), removed.
Called(name) == [last EXCEPT !.op = name, !.repeat = FALSE, !.stripped = {}]

AppVars == <<phase, calls>>

\* initialize(), with the adapter detectCurrentSite() finds for the URL (the
\* registry of this client is not followed here: site is what it yields)
Initialize(site) ==
    /\ Commit([Cur EXCEPT !.currentAdapter = site])
    /\ last' = Called("initialize")
    /\ UNCHANGED AppVars

ProcessCurrentPage(page) ==
    /\ Commit(processCurrentPage(Cur, page))
    /\ last' = [Called("processCurrentPage") EXCEPT
                   !.stripped = last.stripped,
                   !.repeat = /\ currentAdapter # Null
                              /\ \E i \in 1..Len(page) :
                                    \/ HasPaper(Cur, PaperAt(page[i]).id)
                                    \/ page[i] \in marker]
    /\ UNCHANGED AppVars

MarkAsProcessed(paperId) ==
    /\ Commit(markAsProcessed(Cur, paperId))
    /\ last' = [last EXCEPT !.op = "markAsProcessed",
                            !.repeat = paperId \in last.marks,
                            !.marks = @ \cup {paperId},
                            !.stripped = {}]
    /\ UNCHANGED AppVars

MarkElementAsProcessed(paperId, element) ==
    /\ Commit(markElementAsProcessed(Cur, paperId, element))
    /\ last' = Called("markElementAsProcessed")
    /\ UNCHANGED AppVars

IsProcessed(paperId, element) ==
    /\ Commit(isProcessed(Cur, paperId, element).st)
    /\ last' = Called("isProcessed")
    /\ UNCHANGED AppVars

Reset(clearDomMarkers) ==
    /\ Commit(reset(Cur, clearDomMarkers))
    /\ last' = [Called("reset") EXCEPT
                   !.marks = {},
                   !.stripped =
                       IF clearDomMarkers
                       THEN {id \in DOMAIN processedPapers :
                                processedPapers[id].processed}
                       ELSE {}]
    /\ UNCHANGED AppVars

\* The script is injected again: a new SiteManager, with empty in-memory
\* state, over the same DOM
NewSiteManager ==
    /\ Commit([Cur EXCEPT !.currentAdapter = Null,
                          !.processedPapers = EmptyMap,
                          !.paperOrder = <<>>,
                          !.processedElements = {}])
    /\ last' = [Called("new") EXCEPT !.marks = {}]
    /\ UNCHANGED AppVars

LedgerNext ==
    \/ \E site \in SiteChoices : Initialize(site)
    \/ \E page \in PageSeqs : ProcessCurrentPage(page)
    \/ \E id \in Ids : MarkAsProcessed(id)
    \/ \E id \in Ids, e \in Elements : MarkElementAsProcessed(id, e)
    \/ \E id \in Ids, e \in Elements \cup {Null} : IsProcessed(id, e)
    \/ \E b \in BOOLEAN : Reset(b)
    \/ NewSiteManager

LedgerSpec == Init /\ [][LedgerNext]_vars

\* ---------------------------------------- DblpService called by a client
\* The titles a client asks for: two that differ in case and outer
\* whitespace only, one with another key, a blank one and the empty one
ServiceTitles ==
    {<<"A", "b">>, <<" ", "a", "B">>, <<"b">>, <<" ">>, <<>>}

\* calls keeps every call made: how it started (served at once, request
\* issued), whether a call with the same title had failed before it, and,
\* once it has returned, its result
IsFailure(result) ==
    result # NoResult /\ result.error \notin {Undefined, EmptyTitleResult.error}

QueryByTitle(title) ==
    /\ Cardinality(calls) < MaxCalls
    /\ LET q == queryByTitleStart(cache, title, FALSE)
       IN  calls' = calls \cup
               {[cid |-> Cardinality(calls) + 1, title |-> title,
                 start |-> q.pc, pc |-> q.pc, result |-> q.result,
                 retry |-> \E c \in calls :
                              c.title = title /\ IsFailure(c.result)]}
    /\ last' = Called("queryByTitle")
    /\ UNCHANGED <<marker, currentAdapter, observing, processedPapers,
                   paperOrder, processedElements, phase, showRanks,
                   processingEpoch, dblpQueue, dblpActiveCount, dblpInFlight,
                   tasks, nextTask, mountedBadges, pendingUiUpdate, stats,
                   cache, settings, gmStorage,
                   loaded, adapters, factories, batch, badgeContainers,
                   storeCall>>

QueryResponds(c, response) ==
    /\ c \in calls
    /\ c.pc = "net"
    /\ LET r == queryByTitleFinish(cache, c.title, response)
       IN  /\ cache' = r.cache
           /\ calls' = (calls \ {c}) \cup
                        {[c EXCEPT !.pc = "res", !.result = r.result]}
    /\ last' = Called("queryResponds")
    /\ UNCHANGED <<marker, currentAdapter, observing, processedPapers,
                   paperOrder, processedElements, phase, showRanks,
                   processingEpoch, dblpQueue, dblpActiveCount, dblpInFlight,
                   tasks, nextTask, mountedBadges, pendingUiUpdate, stats,
                   settings, gmStorage, loaded,
                   adapters, factories, batch, badgeContainers,
                   storeCall>>

ClearCache ==
    /\ cache' = CacheClear(cache)
    /\ last' = Called("clearCache")
    /\ UNCHANGED <<marker, currentAdapter, observing, processedPapers,
                   paperOrder, processedElements, phase, showRanks,
                   processingEpoch, dblpQueue, dblpActiveCount, dblpInFlight,
                   tasks, nextTask, mountedBadges, pendingUiUpdate, stats,
                   calls, settings, gmStorage, loaded,
                   adapters, factories, batch, badgeContainers,
                   storeCall>>

DblpNext ==
    \/ \E title \in ServiceTitles : QueryByTitle(title)
    \/ \E c \in calls, response \in Responses : QueryResponds(c, response)
    \/ ClearCache

DblpSpec == Init /\ [][DblpNext]_vars

\* The orchestrator on one arXiv listing of two papers without venue, for the
\* progress of the queue
LivePages == {<<"e1", "e3">>}

LiveResponses ==
    {r \in AppResponses : r.kind = "timeout" \/ r.body = <<GoodHit>>}

LiveNext ==
    \/ \E page \in LivePages : OnMounted("arxiv", page, FALSE)
    \/ \E page \in LivePages : HandlePageChange(page, FALSE)
    \/ \E ranks \in ShowRanksChoices, page \in LivePages, g \in BOOLEAN :
          ShowRanksChanged(ranks, page, g)
    \/ OnUnmounted
    \/ \E t \in tasks, response \in LiveResponses : LookupResponds(t, response)
    \/ \E t \in tasks : LookupSettles(t)
    \/ \E t \in tasks : LookupFinally(t, FALSE)
    \/ UiUpdateTimer

\* Fairness: a request always calls back (the client's own timeout at the
\* latest), and promise continuations always run
LiveSpec ==
    /\ Init
    /\ [][LiveNext]_vars
    /\ WF_vars(\E t \in tasks, response \in LiveResponses :
                   LookupResponds(t, response))
    /\ WF_vars(\E t \in tasks : LookupSettles(t))
    /\ WF_vars(\E t \in tasks : LookupFinally(t, FALSE))

\* ------------------------------------- SettingsStore called by a client
\* (the settings panel). setThrows: GM_setValue throws in this call.
Load(getThrows) ==
    /\ Commit(loadSettings(Cur, getThrows))
    /\ last' = Called("load")
    /\ UNCHANGED AppVars

\* The state a call of a client to the store starts in
NewCall == [Cur EXCEPT !.storeCall = NoCall]

\* save() called by a client
Save(setThrows) ==
    /\ Commit(save(NewCall, setThrows))
    /\ last' = Called("save")
    /\ UNCHANGED AppVars

ResetSettings(setThrows) ==
    /\ Commit(resetSettings(NewCall, setThrows))
    /\ last' = Called("resetSettings")
    /\ UNCHANGED AppVars

Update(key, value, setThrows) ==
    /\ Commit(update(NewCall, key, value, setThrows))
    /\ last' = Called("update")
    /\ UNCHANGED AppVars

BatchUpdate(updates, setThrows) ==
    /\ Commit(batchUpdate(NewCall, updates, setThrows))
    /\ last' = Called("batchUpdate")
    /\ UNCHANGED AppVars

SetRankDisplay(rank, enabled, setThrows) ==
    /\ Commit(setRankDisplay(NewCall, rank, enabled, setThrows))
    /\ last' = Called("setRankDisplay")
    /\ UNCHANGED AppVars

SetSiteEnabled(site, enabled, setThrows) ==
    /\ Commit(setSiteEnabled(NewCall, site, enabled, setThrows))
    /\ last' = Called("setSiteEnabled")
    /\ UNCHANGED AppVars

\* The values the panel passes
PartialRanks == {[k \in {"A"} |-> FALSE]}

PartialSites == {[k \in {"arxiv"} |-> FALSE]}

BatchUpdates ==
    {[showRanks |-> [k \in {"A", "unknown"} |-> TRUE], debugMode |-> FALSE],
     [enabledSites |-> [k \in {"arxiv"} |-> TRUE],
      badgePosition |-> "inline", statsExpanded |-> FALSE]}

PanelRanks == {"unknown"}

PanelSites == {"arxiv"}

SettingsNext ==
    \/ \E g \in BOOLEAN : Load(g)
    \/ \E t \in BOOLEAN : Save(t)
    \/ \E t \in BOOLEAN : ResetSettings(t)
    \/ \E v \in PartialRanks, t \in BOOLEAN : Update("showRanks", v, t)
    \/ \E v \in PartialSites, t \in BOOLEAN : Update("enabledSites", v, t)
    \/ \E v \in {"inline"}, t \in BOOLEAN : Update("badgePosition", v, t)
    \/ \E v \in {TRUE}, t \in BOOLEAN : Update("debugMode", v, t)
    \/ \E u \in BatchUpdates, t \in BOOLEAN : BatchUpdate(u, t)
    \/ \E rank \in PanelRanks, enabled \in BOOLEAN, t \in BOOLEAN :
          SetRankDisplay(rank, enabled, t)
    \/ \E site \in PanelSites, enabled \in BOOLEAN, t \in BOOLEAN :
          SetSiteEnabled(site, enabled, t)

SettingsSpec == Init /\ [][SettingsNext]_vars

\* ------------------------- DblpService called with titles of every shape
\* Every title of at most MaxTitle characters over a letter in both cases,
\* the space and the underscore
KeyChars == {"a", "A", " ", "_"}

KeyTitles == UNION {[1..n -> KeyChars] : n \in 0..MaxTitle}

KeyResponses ==
    {r \in AppResponses : r.kind = "timeout" \/ r.body = <<GoodHit>>}

KeyNext ==
    \/ \E title \in KeyTitles : QueryByTitle(title)
    \/ \E c \in calls, response \in KeyResponses : QueryResponds(c, response)

KeySpec == Init /\ [][KeyNext]_vars

\* ------------------------------ SiteManager on pages of many venue strings
ProcessVenuePage(e, venue) ==
    /\ Commit(processVenuePage(Cur, e, venue))
    /\ last' = Called("processCurrentPage")
    /\ UNCHANGED AppVars

MatchElements == {"e1", "e4"}

MatchNext ==
    \/ \E site \in Sites : Initialize(site)
    \/ \E e \in MatchElements, venue \in MatchVenues : ProcessVenuePage(e, venue)
    \/ Reset(TRUE)

MatchSpec == Init /\ [][MatchNext]_vars

\* --------------------------- the App on an arXiv listing, lookups answered
UpgradePages == {<<"e1">>, <<"e3">>, <<"e1", "e3">>}

UpgradeResponses ==
    {r \in Responses :
        \/ r.kind = "timeout"
        \/ r.kind = "load" /\ r.status = 200 /\ r.parses
             /\ r.body \in {<<>>, <<GoodHit>>, <<BareHit>>, <<HalfHit, FarHit>>}}

UpgradeNext ==
    \/ \E page \in UpgradePages : OnMounted("arxiv", page, FALSE)
    \/ \E page \in UpgradePages : HandlePageChange(page, FALSE)
    \/ \E ranks \in ShowRanksChoices, page \in UpgradePages :
           ShowRanksChanged(ranks, page, FALSE)
    \/ \E t \in tasks, response \in UpgradeResponses :
           LookupResponds(t, response)
    \/ \E t \in tasks : LookupSettles(t)
    \/ \E t \in tasks : LookupFinally(t, FALSE)
    \/ UiUpdateTimer

UpgradeSpec == Init /\ [][UpgradeNext]_vars

\* ------------------------------ the App while the panel changes settings
\* The rank settings the panel switches between
ConfigRanks == {AllRanks, AllRanks \ {"A"}, AllRanks \ {"unknown"}}

ConfigPages == {<<"e1">>, <<"e1", "e3">>, <<"e4">>, <<"e3", "e1", "e4">>}

ConfigNext ==
    \/ \E site \in Sites, enabled \in BOOLEAN :
           SetSiteEnabled(site, enabled, FALSE)
    \/ \E site \in Sites, page \in ConfigPages : OnMounted(site, page, FALSE)
    \/ \E page \in ConfigPages : HandlePageChange(page, FALSE)
    \/ \E ranks \in ConfigRanks, page \in ConfigPages :
           ShowRanksChanged(ranks, page, FALSE)
    \/ \E t \in tasks, response \in KeyResponses : LookupResponds(t, response)
    \/ \E t \in tasks : LookupSettles(t)
    \/ \E t \in tasks : LookupFinally(t, FALSE)

ConfigSpec == Init /\ [][ConfigNext]_vars

\* ---------------------------------------- queryBatch called by a client
QueryBatch(titles, getThrows) ==
    /\ batch.pc = "idle"
    /\ Commit(queryBatch(Cur, titles, getThrows))
    /\ last' = Called("queryBatch")
    /\ UNCHANGED AppVars

BatchResponds(response) ==
    /\ batch.pc = "net"
    /\ Commit(batchResponse(Cur, response))
    /\ last' = Called("batchResponds")
    /\ UNCHANGED AppVars

BatchDelayElapsed(getThrows) ==
    /\ batch.pc = "delay"
    /\ Commit(batchDelayElapsed(Cur, getThrows))
    /\ last' = Called("batchDelayElapsed")
    /\ UNCHANGED AppVars

\* The lists a client asks for: none, one title, two titles of one cache
\* key, two of different keys, a list with a blank title and a repeated one
BatchLists ==
    {<<>>, << <<"A", "b">> >>, << <<"A", "b">>, <<" ", "a", "B">> >>,
     << <<"b">>, <<"A", "b">> >>, << <<"A", "b">>, <<" ">>, <<"A", "b">> >>}

BatchNext ==
    \/ \E titles \in BatchLists, g \in BOOLEAN : QueryBatch(titles, g)
    \/ \E response \in Responses : BatchResponds(response)
    \/ \E g \in BOOLEAN : BatchDelayElapsed(g)
    \/ ClearCache

BatchSpec == Init /\ [][BatchNext]_vars

\* ------------------------------- the adapter registry called by a client
RegisterAdapter(siteId) ==
    /\ Commit(registerAdapter(Cur, siteId))
    /\ last' = Called("registerAdapter")
    /\ UNCHANGED AppVars

RegisterAdapterFactory(siteId, created) ==
    /\ Commit(registerAdapterFactory(Cur, siteId, created))
    /\ last' = Called("registerAdapterFactory")
    /\ UNCHANGED AppVars

\* initialize() on a page of the given URL
InitializeAt(url) ==
    /\ Commit(initialize(Cur, url).s)
    /\ last' = Called("initialize")
    /\ UNCHANGED AppVars

RegistryNext ==
    \/ \E siteId \in Sites : RegisterAdapter(siteId)
    \/ \E siteId \in Sites, created \in Sites :
          RegisterAdapterFactory(siteId, created)
    \/ \E url \in Urls : InitializeAt(url)

RegistrySpec == Init /\ [][RegistryNext]_vars

\* --------------------------- SettingsStore over a storage others write to
\* The GM value is shared with the other instances of the script (another
\* tab, an earlier release): the values load() may find.
StoredGroups ==
    [full |-> JsGroup(Ranks, {"B", "C"}),
     mixed |-> JsObject([A |-> JsBoolean(FALSE), B |-> JsString("no"),
                         unknown |-> JsBoolean(FALSE)]),
     sites |-> JsObject([arxiv |-> JsBoolean(FALSE), dblp |-> JsNull])]

StoredSettings ==
    {JsSettings([showRanks |-> {"B", "C"}, enabledSites |-> {"dblp"},
                 badgePosition |-> "after-authors", debugMode |-> TRUE,
                 statsExpanded |-> TRUE]),
     JsObject(EmptyMap),
     JsObject([showRanks |-> StoredGroups.mixed,
               enabledSites |-> JsString("all"),
               badgePosition |-> JsString("inline"),
               debugMode |-> JsBoolean(TRUE),
               statsExpanded |-> JsNumber(1)]),
     JsObject([showRanks |-> JsNull,
               enabledSites |-> StoredGroups.sites,
               badgePosition |-> JsString("top"),
               debugMode |-> JsString("yes"),
               statsExpanded |-> JsBoolean(TRUE)]),
     JsObject([showRanks |-> StoredGroups.full,
               badgePosition |-> JsNumber(0)])}

StoredValues ==
    {JsNull, JsString("x"), JsNumber(0), JsBoolean(TRUE), JsObject(EmptyMap)}
    \cup {JsObject([version |-> v]) : v \in {JsNumber(1)}}
    \cup {JsObject([version |-> JsNumber(1), settings |-> x]) :
             x \in {JsNull, JsString("s"), JsNumber(1)}}
    \cup {JsObject([version |-> v, settings |-> x]) :
             v \in {JsString("1"), JsNull, JsNumber(2), JsNumber(1),
                    JsNumber(0)},
             x \in StoredSettings}
    \cup {JsObject([settings |-> x]) : x \in StoredSettings}

\* Another instance of the script writes the GM value
StorageWritten(value) ==
    /\ gmStorage' = value
    /\ last' = Called("storageWritten")
    /\ UNCHANGED <<marker, currentAdapter, observing, processedPapers,
                   paperOrder, processedElements, phase, showRanks,
                   processingEpoch, dblpQueue, dblpActiveCount, dblpInFlight,
                   tasks, nextTask, mountedBadges, pendingUiUpdate, stats,
                   cache, calls, settings, loaded, adapters,
                   factories, batch, badgeContainers,
                   storeCall>>

LoadNext ==
    \/ \E value \in StoredValues : StorageWritten(value)
    \/ \E g \in BOOLEAN : Load(g)
    \/ \E rank \in PanelRanks, t \in BOOLEAN : SetRankDisplay(rank, FALSE, t)
    \/ \E t \in BOOLEAN : Update("debugMode", TRUE, t)

LoadSpec == Init /\ [][LoadNext]_vars

\* The orchestrator with every rank filter the settings panel offers for the
\* papers of the page: all ranks shown, rank A hidden, unknown rank hidden
FilterRanks == {AllRanks, AllRanks \ {"A"}, AllRanks \ {"unknown"}}

FilterPages == {<<"e1">>, <<"e4", "e1">>}

FilterNext ==
    \/ \E site \in SiteChoices, page \in FilterPages : OnMounted(site, page, FALSE)
    \/ \E page \in FilterPages : HandlePageChange(page, FALSE)
    \/ \E ranks \in FilterRanks, page \in FilterPages, g \in BOOLEAN :
          ShowRanksChanged(ranks, page, g)
    \/ OnUnmounted
    \/ \E t \in tasks, response \in LiveResponses : LookupResponds(t, response)
    \/ \E t \in tasks : LookupSettles(t)
    \/ \E t \in tasks : LookupFinally(t, FALSE)
    \/ UiUpdateTimer

FilterSpec == Init /\ [][FilterNext]_vars

\* ------------------------------------------- properties of the orchestrator
Queued == {dblpQueue[i] : i \in 1..Len(dblpQueue)}

TidsOf(S) == {t.tid : t \in S}

\* lookups started whose task promise has not settled
Unsettled == {t \in tasks : t.pc # "fin"}

\* lookups outstanding: queued or in flight
Outstanding ==
    {[tid |-> t.tid, id |-> t.id, epoch |-> t.epoch] : t \in Queued \cup Unsettled}

\* C1: at most DBLP_LOOKUP_CONCURRENCY lookups are started and not yet
\* settled, in every reachable state, whatever the interleaving of enqueues,
\* completions, failures and teardowns.
C1_BoundedConcurrency ==
    Cardinality(Unsettled) <= DBLP_LOOKUP_CONCURRENCY

\* Both slots are held, one of them by a lookup of an earlier epoch, and a
\* lookup of the current epoch waits in the queue.
C1_Witness ==
    /\ Cardinality(Unsettled) = DBLP_LOOKUP_CONCURRENCY
    /\ \E t \in Unsettled : t.epoch < processingEpoch
    /\ Len(dblpQueue) > 0

\* C2: when a lookup of an earlier epoch gets its result or resumes after
\* its await, no ledger entry, no badge state, no pending UI update and no
\* statistics change.
C2_StaleDiscard ==
    [][\A t \in tasks :
          /\ t.epoch # processingEpoch
          /\ \/ t.pc = "res" /\ [t EXCEPT !.pc = "fin"] \in tasks'
             \/ t.pc = "net" /\ t.tid \in TidsOf({u \in tasks' : u.pc = "res"})
          => UNCHANGED <<processedPapers, mountedBadges, pendingUiUpdate, stats>>]_vars

\* A lookup of an earlier epoch has settled with a found venue while the
\* ledger entry of its paper has none.
C2_Witness ==
    \E t \in tasks :
        /\ t.pc = "fin"
        /\ t.epoch < processingEpoch
        /\ t.result # NoResult
        /\ t.result.found
        /\ t.result.venue # Null
        /\ t.id \in DOMAIN processedPapers
        /\ processedPapers[t.id].venue = Null

\* Task ids handed out within the epoch bound (each paper is looked up at
\* most once per epoch)
TaskIds == 1..(Cardinality(Ids) * (MaxEpoch + 1))

\* C8: under LiveSpec (every started lookup settles), every task in the
\* queue eventually leaves it for good: it is started and runs to its end,
\* or a cleanup() removes it.
C8_QueuedEventuallyHandled ==
    \A tid \in TaskIds :
        (tid \in TidsOf(Queued)) ~>
            (tid \notin TidsOf(Queued) /\ tid \notin TidsOf(tasks))

\* The fourth task, enqueued while a lookup of an earlier epoch held a slot
\* and the third task took the other, has waited in the queue, was started
\* and has run to its end.
C8_Witness ==
    \E t \in tasks, u \in Unsettled :
        /\ t.tid = 2 * DBLP_LOOKUP_CONCURRENCY
        /\ t.pc = "fin"
        /\ u.epoch < t.epoch

IsCleanupStep ==
    \/ showRanks' # showRanks
    \/ phase = "mounted" /\ phase' = "unmounted"

\* C9: every cleanup() advances processingEpoch by exactly one and drops the
\* pending tasks, which are never started; the epoch never decreases, and a
\* task is only ever started in the epoch it was enqueued under.
C9_EpochAdvance ==
    /\ [](\A t \in Queued : t.epoch = processingEpoch)
    /\ [][/\ processingEpoch' >= processingEpoch
          /\ IsCleanupStep =>
                /\ processingEpoch' = processingEpoch + 1
                /\ TidsOf(Queued) \cap (TidsOf(Queued') \cup TidsOf(tasks')) = {}
          /\ \A t \in tasks' :
                t.tid \notin TidsOf(tasks) => t.epoch = processingEpoch']_vars

\* Tasks 3 and 4 were enqueued behind the two running lookups and dropped by
\* the teardown: they are neither queued nor running, and the slots were
\* never free for them.
C9_Witness ==
    /\ phase = "unmounted"
    /\ nextTask = 5
    /\ dblpQueue = <<>>
    /\ TidsOf(tasks) = {1, 2}

\* C10 as stated: no two outstanding lookups are for the same paper id.
C10_NoDuplicateLookup ==
    \A a, b \in Outstanding : a.id = b.id => a.tid = b.tid

\* C10 amended: no two outstanding lookups enqueued under the same epoch are
\* for the same paper id.
C10_NoDuplicateLookupInEpoch ==
    \A a, b \in Outstanding : a.id = b.id /\ a.epoch = b.epoch => a.tid = b.tid

\* A lookup enqueued before a teardown is still outstanding beside the lookup
\* enqueued for the same paper after it.
C10_Witness ==
    \E a, b \in Outstanding : a.id = b.id /\ a.epoch < b.epoch

\* a task whose promise was rejected: it never got a result
Rejected(t) == t.pc \in {"rej", "fin"} /\ t.result = NoResult

\* C11: a lookup task whose promise rejects changes nothing but the in-flight
\* set when it settles, and when its .finally runs it gives its slot back and
\* the queue is drained: the task at the head of the queue is started in the
\* same step, every other running task stays as it is, and the count of
\* taken slots is always the number of tasks running.
C11_RejectionIsolated ==
    /\ [](dblpActiveCount = Cardinality(tasks))
    /\ [][\A t \in tasks :
             Rejected(t) =>
                /\ t.pc = "rej" /\ t \notin tasks' =>
                      /\ tasks' = (tasks \ {t}) \cup {[t EXCEPT !.pc = "fin"]}
                      /\ UNCHANGED <<processedPapers, mountedBadges, dblpQueue,
                                     dblpActiveCount, pendingUiUpdate, stats>>
                /\ t.pc = "fin" /\ t \notin tasks' =>
                      /\ tasks \ {t} \subseteq tasks'
                      /\ UNCHANGED <<processedPapers, mountedBadges>>
                      /\ IF Len(dblpQueue) > 0
                         THEN /\ Head(dblpQueue).tid \in TidsOf(tasks')
                              /\ dblpQueue' = Tail(dblpQueue)
                              /\ dblpActiveCount' = dblpActiveCount
                         ELSE /\ tasks' = tasks \ {t}
                              /\ dblpActiveCount' = dblpActiveCount - 1]_vars

\* The lookup of a paper was rejected (its badge still shows loading and no
\* lookup of this epoch is outstanding for it); the fourth task, queued
\* behind it, has been started in the slot it gave back, while a lookup of
\* an earlier epoch still runs beside it.
C11_Witness ==
    /\ \E id \in DOMAIN mountedBadges :
          /\ mountedBadges[id].loading
          /\ ~\E o \in Outstanding : o.id = id /\ o.epoch = processingEpoch
    /\ \E u \in tasks : u.tid = 2 * DBLP_LOOKUP_CONCURRENCY /\ u.pc = "net"
    /\ \E v \in tasks : v.epoch < processingEpoch /\ v.pc = "net"
    /\ dblpQueue = <<>>

\* the entries counted under a catalog rank, and those counted as unknown
RankedAs(r) ==
    {id \in DOMAIN processedPapers :
        /\ processedPapers[id].matchResult.matched
        /\ processedPapers[id].matchResult.entry # NoEntry
        /\ processedPapers[id].matchResult.entry.rank = r}

Unranked ==
    {id \in DOMAIN processedPapers :
        ~(/\ processedPapers[id].matchResult.matched
          /\ processedPapers[id].matchResult.entry # NoEntry)}

\* C12: in every reachable state of the orchestrator (after any scans,
\* lookup updates and resets) getStatistics() returns total = the number of
\* ledger entries, byRank[A] + byRank[B] + byRank[C] + byRank[unknown] =
\* total, each of A, B, C counting the entries with matched and a non-null
\* catalog entry of that rank, and unknown counting all the others.
C12_StatisticsConsistent ==
    LET st == getStatistics(Cur)
    IN  /\ st.total = Cardinality(DOMAIN processedPapers)
        /\ st.byRank["A"] + st.byRank["B"] + st.byRank["C"]
               + st.byRank["unknown"] = st.total
        /\ \A r \in {"A", "B", "C"} : st.byRank[r] = Cardinality(RankedAs(r))
        /\ st.byRank["unknown"] = Cardinality(Unranked)

\* After a reset, the ledger holds a paper a lookup has moved to rank A, a
\* paper ranked A from its own venue and a paper still unknown.
C12_Witness ==
    /\ processingEpoch > 0
    /\ \E id \in RankedAs("A") : processedPapers[id].venueSource = "dblp"
    /\ \E id \in RankedAs("A") : processedPapers[id].venueSource = "comment"
    /\ Unranked # {}
    /\ getStatistics(Cur).byRank["A"] = 2

\* C15: in every step of the orchestrator but the reset of a settings change
\* (scans, badge mounts with markAsProcessed, lookup results, statistics
\* updates, teardown on unmount) every ledger entry stays: its id keeps its
\* place in the ledger, the entry keeps its id, title and element, a
\* processed entry stays processed, and new entries are only added behind
\* the ones there.
C15_EntriesKept ==
    [][showRanks' = showRanks =>
          /\ Len(paperOrder') >= Len(paperOrder)
          /\ SubSeq(paperOrder', 1, Len(paperOrder)) = paperOrder
          /\ \A id \in DOMAIN processedPapers :
                /\ id \in DOMAIN processedPapers'
                /\ processedPapers'[id].id = processedPapers[id].id
                /\ processedPapers'[id].title = processedPapers[id].title
                /\ processedPapers'[id].element = processedPapers[id].element
                /\ processedPapers[id].processed
                      => processedPapers'[id].processed]_vars

\* The entry of p3 was there before the scan that added p1, a scan of a
\* page without p3 (a page with p3 adds p2 as well, or p3 alone); it has
\* stayed through that scan and through the lookup result written into the
\* entry of p1.
C15_Witness ==
    /\ processingEpoch = 0
    /\ paperOrder = <<"p3", "p1">>
    /\ processedPapers["p3"].processed
    /\ processedPapers["p1"].venueSource = "dblp"
    /\ stats.total = 2

\* the lookups enqueued in this step for paper id
Enqueued(id) ==
    {t \in Queued' \cup tasks' : t.tid >= nextTask /\ t.id = id}

\* paper id gets its ledger entry in this step (first sighting, or first
\* sighting after the reset of a settings change: a new epoch)
FirstSeen(id) ==
    /\ id \in DOMAIN processedPapers'
    /\ id \notin DOMAIN processedPapers \/ showRanks' # showRanks

\* that entry is of a paper on arxiv with a title and no venue
Qualifies(id) ==
    /\ currentAdapter' = "arxiv"
    /\ processedPapers'[id].venue = Null
    /\ processedPapers'[id].title # <<>>

\* C16 as stated: the step in which a paper on arxiv with a title and no
\* venue gets its ledger entry enqueues exactly one lookup for it, and no
\* other step enqueues a lookup for any paper.
C16_OneLookupPerPaper ==
    [][\A id \in Ids :
          Cardinality(Enqueued(id)) =
              IF FirstSeen(id) /\ Qualifies(id) THEN 1 ELSE 0]_vars

\* C16 amended: the same, for the papers whose badge is mounted, that is
\* when the unknown rank is among the ranks shown; when it is hidden, no
\* lookup is enqueued for a paper without venue.
C16_OneLookupPerShownPaper ==
    [][\A id \in Ids :
          Cardinality(Enqueued(id)) =
              IF FirstSeen(id) /\ Qualifies(id) /\ "unknown" \in showRanks'
              THEN 1 ELSE 0]_vars

\* On arxiv, p1 (no venue) was seen by a first scan and presented again,
\* with p3 (venue from the comment), by a second one: one lookup in all has
\* been enqueued, the one of p1, which is still running.
C16_Witness ==
    /\ currentAdapter = "arxiv"
    /\ processingEpoch = 0
    /\ paperOrder = <<"p1", "p3">>
    /\ processedPapers["p3"].processed
    /\ nextTask = 2
    /\ \E t \in tasks : t.tid = 1 /\ t.id = "p1" /\ t.pc = "net"

\* the ways a request fails
IsTimeout(response) == response.kind = "timeout"

IsOtherFailure(response) ==
    \/ response.kind = "error"
    \/ response.kind = "load" /\ (response.status # 200 \/ ~response.parses)

\* the responses that are a timeout, a network error, a status other than
\* 200 or an unparseable body
FailedResponses == {r \in Responses : IsTimeout(r) \/ IsOtherFailure(r)}

\* task t resumes after its await in this step, in the epoch it was
\* enqueued under
SettlesCurrent(t) ==
    /\ t.pc = "res"
    /\ [t EXCEPT !.pc = "fin"] \in tasks'
    /\ t.epoch = processingEpoch
    /\ t.id \in DOMAIN mountedBadges

ShowsTimeout(badges, id) ==
    id \in DOMAIN badges /\ badges[id].error = TimeoutText

Entries == DOMAIN processedPapers

IsScanStep == last'.op = "processCurrentPage"

\* C3: the ledger holds one entry per paper id, and a scan leaves every
\* entry it finds as it is; a markAsProcessed(id) that repeats an earlier
\* one changes neither the ledger, nor the processed-id set, nor the markers.
C3_ScanAndMarkIdempotent ==
    /\ [](/\ Len(paperOrder) = Cardinality(Entries)
          /\ {paperOrder[i] : i \in 1..Len(paperOrder)} = Entries)
    /\ [][/\ IsScanStep =>
                \A id \in Entries :
                    /\ id \in DOMAIN processedPapers'
                    /\ processedPapers'[id] = processedPapers[id]
          /\ last'.op = "markAsProcessed" /\ last'.repeat =>
                UNCHANGED <<processedPapers, paperOrder, processedElements,
                            marker>>]_vars

\* A scan met a paper whose entry is in the ledger with its badge recorded:
\* the entry is still the processed one.
C3_Witness ==
    /\ last.op = "processCurrentPage"
    /\ last.repeat
    /\ \E id \in Entries : processedPapers[id].processed

\* C4: every entry a scan adds is for an id that had no entry and for an
\* element without the marker, and is unprocessed; the scan changes no entry
\* and no marker, whatever the in-memory state it starts from.
C4_ScanCreatesOnlyUnseen ==
    [][IsScanStep =>
          /\ marker' = marker
          /\ Len(paperOrder') >= Len(paperOrder)
          /\ SubSeq(paperOrder', 1, Len(paperOrder)) = paperOrder
          /\ \A i \in Len(paperOrder) + 1 .. Len(paperOrder') :
                paperOrder'[i] \notin Entries
          /\ \A id \in DOMAIN processedPapers' :
                IF id \in Entries
                THEN processedPapers'[id] = processedPapers[id]
                ELSE /\ processedPapers'[id].element \notin marker
                     /\ ~processedPapers'[id].processed]_vars

\* A scan by a manager with an empty ledger met an element that carries the
\* marker and created nothing.
C4_Witness ==
    /\ last.op = "processCurrentPage"
    /\ last.repeat
    /\ Entries = {}
    /\ marker # {}

\* C5 as stated: an entry is processed exactly when its element carries the
\* marker, and isProcessed(id) holds for the processed entries.
C5_MarkerIffProcessed ==
    \A id \in Entries :
        /\ processedPapers[id].processed <=>
               processedPapers[id].element \in marker
        /\ processedPapers[id].processed => isProcessed(Cur, id, Null).ret

UnprocessedButMarked(papers, marked) ==
    {id \in DOMAIN papers :
        ~papers[id].processed /\ papers[id].element \in marked}

\* C5 amended: a processed entry always has its element marked and
\* isProcessed(id) true; an unprocessed entry has a marked element only
\* after a direct markElementAsProcessed call on that element.
C5_ProcessedImpliesMarked ==
    /\ [](\A id \in Entries :
            processedPapers[id].processed =>
                /\ processedPapers[id].element \in marker
                /\ isProcessed(Cur, id, Null).ret
                /\ isProcessed(Cur, id, processedPapers[id].element).ret)
    /\ [][UnprocessedButMarked(processedPapers', marker')
              \subseteq UnprocessedButMarked(processedPapers, marker)
          \/ last'.op = "markElementAsProcessed"]_vars

\* markAsProcessed has just stamped an entry: processed, marked, known.
C5_Witness ==
    /\ last.op = "markAsProcessed"
    /\ \E id \in last.marks \cap Entries :
          /\ processedPapers[id].processed
          /\ processedPapers[id].element \in marker
          /\ id \in processedElements

\* the entry expected for a paper seen for the first time
FirstEntry(paper) ==
    [id |-> paper.id, title |-> paper.title, year |-> paper.year,
     venue |-> paper.venue, venueSource |-> paper.venueSource,
     element |-> paper.element,
     matchResult |-> IF paper.venue # Null /\ paper.venue # ""
                     THEN Match(paper.venue) ELSE ZeroMatch,
     processed |-> FALSE]

\* C13: in every reachable state of a manager with an adapter, and for every
\* page the adapter may present: when the scan meets a paper, for the first
\* time in that scan, whose id has no ledger entry and is not known as
\* processed (its id is not in the processed-id set and its element carries
\* no marker), the ledger holds after the scan an entry for that id made of
\* the paper's fields, processed = false and matchResult = match(venue) if
\* the paper has a venue, the zero result otherwise.
C13_FirstSightingCreatesEntry ==
    currentAdapter # Null =>
        \A page \in PageSeqs :
            LET after == processCurrentPage(Cur, page).processedPapers
            IN  \A i \in 1..Len(page) :
                    LET paper == PaperAt(page[i])
                    IN  (/\ ~HasPaper(Cur, paper.id)
                         /\ paper.id \notin processedElements
                         /\ page[i] \notin marker
                         /\ \A j \in 1..(i - 1) : PaperAt(page[j]).id # paper.id)
                        => /\ paper.id \in DOMAIN after
                           /\ after[paper.id] = FirstEntry(paper)

\* A scan has created an entry from a paper with a venue (matched against the
\* catalog) and an entry from a paper without one (the zero result).
C13_Witness ==
    /\ last.op = "processCurrentPage"
    /\ ~last.repeat
    /\ \E id \in Entries :
          /\ processedPapers[id].venue # Null
          /\ processedPapers[id].matchResult = Match(processedPapers[id].venue)
          /\ processedPapers[id].matchResult.matched
          /\ ~processedPapers[id].processed
    /\ \E id \in Entries :
          /\ processedPapers[id].venue = Null
          /\ processedPapers[id].matchResult = ZeroMatch
          /\ ~processedPapers[id].processed

\* the elements of the ledger entries: those reset(true) strips
LedgerElements == {processedPapers[id].element : id \in DOMAIN processedPapers}

\* the papers a scan of page creates an entry for, started from state s
Reevaluated(s, page) ==
    LET after == processCurrentPage(s, page).processedPapers
    IN  {id \in DOMAIN after : ~after[id].processed}

PresentedIds(page) == {PaperAt(page[i]).id : i \in 1..Len(page)}

\* C14 as stated: whatever the state a reset(true) is called in, the scan
\* that follows gives every paper the adapter presents a new entry with
\* processed = false.
C14_ResetReevaluatesAll ==
    currentAdapter # Null =>
        \A page \in PageSeqs :
            PresentedIds(page) \subseteq Reevaluated(reset(Cur, TRUE), page)

\* C14 amended: reset() empties the ledger and the processed-id set and
\* leaves the markers; reset(true) also removes the marker from the element
\* of every ledger entry, and from no other element. On the scan that
\* follows a reset(true), a presented paper gets a new entry with
\* processed = false exactly when the first element presented for its id
\* carries no marker after the reset.
C14_ResetReevaluatesUnmarked ==
    LET kept == reset(Cur, FALSE)
        cleared == reset(Cur, TRUE)
    IN  /\ DOMAIN kept.processedPapers = {}
        /\ kept.processedElements = {}
        /\ kept.marker = marker
        /\ DOMAIN cleared.processedPapers = {}
        /\ cleared.processedElements = {}
        /\ cleared.marker = marker \ LedgerElements
        /\ currentAdapter # Null =>
              \A page \in PageSeqs :
                  Reevaluated(cleared, page) =
                      {PaperAt(page[i]).id : i \in
                          {k \in 1..Len(page) :
                              /\ page[k] \notin cleared.marker
                              /\ \A j \in 1..(k - 1) :
                                    PaperAt(page[j]).id # PaperAt(page[k]).id}}

\* A reset(true) removed a processed entry and the marker of its element;
\* the scan that followed has given the paper a new, unprocessed entry.
C14_Witness ==
    /\ last.op = "processCurrentPage"
    /\ \E id \in last.stripped \cap Entries :
          /\ ~processedPapers[id].processed
          /\ processedPapers[id].element \notin marker
          /\ id \notin processedElements

\* ------------------------------------------- properties of the lookup client
Cids(C) == {c.cid : c \in C}

Started == {d \in calls' : d.cid \notin Cids(calls)}

Returned ==
    {d \in calls' : \E c \in calls : c.cid = d.cid /\ c.pc = "net" /\ d.pc = "res"}

IsBlank(title) == Len(Trim(title)) = 0

\* C6: a call that ends in an error leaves the cache as it was, no error
\* result is ever in the cache, and a call with the title of a failed call
\* that finds no value under its key issues a request.
C6_FailureNotCached ==
    /\ [](\A k \in DOMAIN cache : ~IsFailure(cache[k]))
    /\ [][/\ \A d \in Returned : IsFailure(d.result) => cache' = cache
          /\ \A d \in Started :
                d.retry /\ generateCacheKey(d.title) \notin DOMAIN cache
                    => d.start = "net"]_vars

\* A call has failed, nothing is cached under its key, and a later call with
\* the same title has a request outstanding.
C6_Witness ==
    \E c, d \in calls :
        /\ c.cid < d.cid
        /\ c.title = d.title
        /\ IsFailure(c.result)
        /\ d.retry
        /\ d.pc = "net"
        /\ generateCacheKey(d.title) \notin DOMAIN cache

C17_BlankTitleRejected ==
    /\ [](\A title \in ServiceTitles, getThrows \in BOOLEAN :
             IsBlank(title) =>
                queryByTitleStart(cache, title, getThrows) =
                    [pc |-> "res", result |-> EmptyTitleResult])
    /\ [][\A d \in Started :
             IsBlank(d.title) =>
                /\ d.start = "res"
                /\ d.pc = "res"
                /\ ~d.result.found
                /\ d.result.error \notin {Undefined, ""}
                /\ cache' = cache]_vars

\* With a result cached by an earlier call, a call with a whitespace-only
\* title has returned the empty-title error.
C17_Witness ==
    /\ DOMAIN cache # {}
    /\ \E c \in calls :
          /\ c.title = <<" ">>
          /\ c.pc = "res"
          /\ ~c.result.found
          /\ c.result.error = "Empty title provided"

\* the hits of a list that have a title, and the earliest of those no other
\* hit is more similar to the query title than
Titled(hits) == {i \in 1..Len(hits) : hits[i].title # <<>>}

MostSimilar(hits, title) ==
    LET top == {i \in Titled(hits) :
                   \A j \in Titled(hits) :
                       ~SimGreater(titleSimilarity(title, hits[j].title),
                                   titleSimilarity(title, hits[i].title))}
    IN  CHOOSE i \in top : \A j \in top : i <= j

\* the result stated for a hit list: the best match or not found
BestMatchResult(hits, title) ==
    IF Titled(hits) = {} THEN NotFoundResult
    ELSE LET hit == hits[MostSimilar(hits, title)]
             sim == titleSimilarity(title, hit.title)
         IN  IF 2 * sim.num >= sim.den
             THEN [found |-> TRUE, venue |-> hit.venue, year |-> hit.year,
                   dblpUrl |-> hit.url, error |-> Undefined,
                   timedOut |-> FALSE]
             ELSE NotFoundResult

\* parseResponse returns the stated result for every hit list and every
\* query title that is not blank
ParseResponseSelectsBest ==
    \A hits \in HitLists, title \in ServiceTitles :
        ~IsBlank(title) =>
            parseResponse(hits, title) = BestMatchResult(hits, title)

\* the results stated for a query title, over the hit lists a response
\* can carry
BestMatchResults ==
    [title \in {t \in ServiceTitles : ~IsBlank(t)} |->
        {BestMatchResult(hits, title) : hits \in HitLists}]

\* the found results that carry the venue, year and url of one hit
HitResults ==
    {[found |-> TRUE, venue |-> h.venue, year |-> h.year, dblpUrl |-> h.url,
      error |-> Undefined, timedOut |-> FALSE] :
        h \in {GoodHit, BareHit, HalfHit}}

\* C18: for every hit list and every query title, parseResponse returns
\* found = true with the venue, year and url of the earliest hit of highest
\* titleSimilarity to the query title when that similarity is at least 1/2,
\* and found = false with venue, year and url null when it is lower or no
\* hit has a title; every call that returns without error returns, and
\* caches, such a result.
C18_BestHitSelected ==
    /\ []ParseResponseSelectsBest
    /\ [][\A d \in Returned :
             ~IsFailure(d.result) =>
                /\ ~IsBlank(d.title)
                /\ d.result \in BestMatchResults[d.title]
                /\ d.result.found => d.result \in HitResults
                /\ ~d.result.found => d.result = NotFoundResult
                /\ cache'[generateCacheKey(d.title)] = d.result]_vars

\* One call has returned the hit whose similarity is exactly 1/2, found;
\* another has returned not found from hits that were all less similar.
C18_Witness ==
    \E c, d \in calls :
        /\ c.pc = "res" /\ c.start = "net"
        /\ c.result.found
        /\ c.result.dblpUrl = HalfHit.url
        /\ titleSimilarity(c.title, HalfHit.title) = [num |-> 1, den |-> 2]
        /\ d.pc = "res" /\ d.start = "net"
        /\ d.result = NotFoundResult

\* ------------------------------------------ properties of the settings store
MutationOps ==
    {"update", "batchUpdate", "setRankDisplay", "setSiteEnabled",
     "resetSettings"}

\* the value a successful save() stores for the settings x
StoredFor(x) ==
    JsObject([version |-> JsNumber(SETTINGS_VERSION),
              settings |->
                  JsObject([showRanks |->
                                JsObject([k \in Ranks |->
                                             JsBoolean(k \in x.showRanks)]),
                            enabledSites |->
                                JsObject([k \in SiteKeys |->
                                             JsBoolean(k \in x.enabledSites)]),
                            badgePosition |-> JsString(x.badgePosition),
                            debugMode |-> JsBoolean(x.debugMode),
                            statsExpanded |-> JsBoolean(x.statsExpanded)])])

\* this step is a call of one of the five mutators, with a GM_setValue that
\* throws or not
Mutation(setThrows) ==
    \/ ResetSettings(setThrows)
    \/ \E v \in PartialRanks : Update("showRanks", v, setThrows)
    \/ \E v \in PartialSites : Update("enabledSites", v, setThrows)
    \/ Update("badgePosition", "inline", setThrows)
    \/ Update("debugMode", TRUE, setThrows)
    \/ \E u \in BatchUpdates : BatchUpdate(u, setThrows)
    \/ \E rank \in PanelRanks, enabled \in BOOLEAN :
          SetRankDisplay(rank, enabled, setThrows)
    \/ \E site \in PanelSites, enabled \in BOOLEAN :
          SetSiteEnabled(site, enabled, setThrows)

\* C20 as stated: after each mutation the stored settings are the complete
\* in-memory settings.
C20_PersistedEqualsMemory ==
    last.op \in MutationOps => gmStorage = StoredFor(SettingsOf(Cur))

\* C20 amended: every mutation changes the in-memory settings in the call;
\* when GM_setValue does not throw, the stored value after the call is the
\* complete in-memory settings, and when it throws the in-memory change
\* stays and the stored value is the one from before the call.
C20_PersistedUnlessWriteFails ==
    [][/\ Mutation(FALSE) => gmStorage' = StoredFor(SettingsOf(Cur)')
       /\ Mutation(TRUE) => gmStorage' = gmStorage
       /\ \A t \in BOOLEAN :
             /\ ResetSettings(t) => SettingsOf(Cur)' = DEFAULT_SETTINGS
             /\ \A rank \in PanelRanks, enabled \in BOOLEAN :
                   SetRankDisplay(rank, enabled, t) =>
                      /\ (rank \in showRanks') = enabled
                      /\ showRanks' \ {rank} = showRanks \ {rank}
                      /\ settings' = settings
             /\ \A site \in PanelSites, enabled \in BOOLEAN :
                   SetSiteEnabled(site, enabled, t) =>
                      /\ (site \in settings'.enabledSites) = enabled
                      /\ showRanks' = showRanks
             /\ Update("debugMode", TRUE, t) =>
                      /\ settings' = [settings EXCEPT !.debugMode = TRUE]
                      /\ showRanks' = showRanks
             /\ \A u \in BatchUpdates :
                   BatchUpdate(u, t) =>
                      /\ "debugMode" \in DOMAIN u
                            => settings'.debugMode = u.debugMode
                      /\ "badgePosition" \in DOMAIN u
                            => settings'.badgePosition = u.badgePosition]_vars

\* setRankDisplay has hidden the unknown rank, and the stored value holds
\* the complete settings, which are not the defaults in two groups.
C20_Witness ==
    /\ last.op = "setRankDisplay"
    /\ "unknown" \notin showRanks
    /\ settings.enabledSites # SiteKeys
    /\ gmStorage = StoredFor(SettingsOf(Cur))
    /\ Get(Get(Get(gmStorage, "settings"), "showRanks"), "unknown")
           = JsBoolean(FALSE)
    /\ Get(Get(Get(gmStorage, "settings"), "showRanks"), "A")
           = JsBoolean(TRUE)

\* ------------------------------------------------ properties of load()
\* the stored value is missing, not an object, has a non-numeric or newer
\* version, or has no settings object
Unusable(stored) ==
    \/ stored.type # "object"
    \/ "version" \notin DOMAIN stored.fields
    \/ stored.fields.version.type # "number"
    \/ stored.fields.version.num > SETTINGS_VERSION
    \/ "settings" \notin DOMAIN stored.fields
    \/ stored.fields.settings.type # "object"

\* the stored value of a field of the settings object, or of a key of one of
\* its groups; undefined when there is none
StoredField(stored, field) ==
    LET fields == stored.fields.settings.fields
    IN  IF field \in DOMAIN fields THEN fields[field] ELSE JsUndefined

StoredKey(stored, group, key) ==
    LET g == StoredField(stored, group)
    IN  IF g.type = "object" /\ key \in DOMAIN g.fields THEN g.fields[key]
        ELSE JsUndefined

\* the stored boolean, or the default when the stored value is no boolean
ValidBoolean(v, dflt) == IF v.type = "boolean" THEN v.bool ELSE dflt

\* the settings the claim states for a usable stored value
FieldwiseSettings(stored) ==
    [showRanks |->
         {k \in {"A", "B", "C", "unknown"} :
             ValidBoolean(StoredKey(stored, "showRanks", k), TRUE)},
     enabledSites |->
         {k \in {"arxiv", "dblp", "ieee"} :
             ValidBoolean(StoredKey(stored, "enabledSites", k), TRUE)},
     badgePosition |->
         LET v == StoredField(stored, "badgePosition")
         IN  IF v \in {JsString("after-title"), JsString("after-authors"),
                       JsString("inline")}
             THEN v.str ELSE "after-title",
     debugMode |-> ValidBoolean(StoredField(stored, "debugMode"), FALSE),
     statsExpanded |->
         ValidBoolean(StoredField(stored, "statsExpanded"), FALSE)]

\* C21: load() always leaves isLoaded true; with a stored value that is
\* missing, not an object, of a non-numeric or newer version, or without a
\* settings object, the in-memory settings become the defaults; with any
\* other stored value each field takes the stored value when it has the
\* valid type and its default when it does not.
C21_LoadValidates ==
    /\ last.op = "load" => loaded
    /\ \A getThrows \in BOOLEAN :
          LET s1 == loadSettings(Cur, getThrows)
          IN  /\ s1.loaded
              /\ ~getThrows /\ Unusable(gmStorage) =>
                     SettingsOf(s1) = DEFAULT_SETTINGS
              /\ ~getThrows /\ ~Unusable(gmStorage) =>
                     SettingsOf(s1) = FieldwiseSettings(gmStorage)

\* load() has read a value of version 0 whose showRanks has a key that is
\* no boolean and lacks a key, and whose enabledSites is a string: the
\* valid keys are taken, the others are the defaults.
C21_Witness ==
    /\ last.op = "load"
    /\ loaded
    /\ ~Unusable(gmStorage)
    /\ Get(gmStorage, "version") = JsNumber(0)
    /\ Get(Get(gmStorage, "settings"), "showRanks") = StoredGroups.mixed
    /\ showRanks = {"B", "C"}
    /\ settings.enabledSites = SiteKeys
    /\ settings.badgePosition = "inline"
    /\ settings.debugMode
    /\ ~settings.statsExpanded

\* ------------------------------------ properties of the adapter registry
\* the entries of a Map whose adapter accepts the URL
Accepting(m, url) == {i \in 1..Len(m) : url.matches \cap {m[i].siteId} # {}}

Lowest(S) == CHOOSE i \in S : \A j \in S : i <= j

\* the adapter registered under a key
RegisteredAs(m, key) ==
    (CHOOSE e \in {m[i] : i \in 1..Len(m)} : e.key = key).siteId

\* C22: initialize() makes current the first instantiated adapter that
\* accepts the URL and leaves the registry as it is; when there is none, the
\* adapter of the first factory whose adapter accepts the URL, which it
\* registers under the site id of that factory and no other adapter; when
\* there is none either, no adapter, and it returns false.
C22_FirstMatchSelected ==
    \A url \in Urls :
        LET r == initialize(Cur, url)
            inst == Accepting(adapters, url)
            fact == Accepting(factories, url)
        IN  /\ r.s.factories = factories
            /\ r.s = [Cur EXCEPT !.currentAdapter = r.s.currentAdapter,
                                 !.adapters = r.s.adapters]
            /\ r.returns = (r.s.currentAdapter # Null)
            /\ inst # {} =>
                  /\ r.s.currentAdapter = adapters[Lowest(inst)].siteId
                  /\ r.s.adapters = adapters
            /\ inst = {} /\ fact # {} =>
                  LET f == factories[Lowest(fact)]
                  IN  /\ r.s.currentAdapter = f.siteId
                      /\ EntryKeys(r.s.adapters) = EntryKeys(adapters) \cup {f.key}
                      /\ RegisteredAs(r.s.adapters, f.key) = f.siteId
                      /\ \A k \in EntryKeys(adapters) \ {f.key} :
                            RegisteredAs(r.s.adapters, k)
                                = RegisteredAs(adapters, k)
            /\ inst = {} /\ fact = {} =>
                  /\ r.s.currentAdapter = Null
                  /\ ~r.returns
                  /\ r.s.adapters = adapters

\* With the factories of arxiv and ieee registered in that order and no
\* adapter instantiated, initialize() on an IEEE page has made the ieee
\* adapter current and registered it alone.
C22_Witness ==
    /\ last.op = "initialize"
    /\ factories = <<[key |-> "arxiv", siteId |-> "arxiv"],
                     [key |-> "ieee", siteId |-> "ieee"]>>
    /\ adapters = <<[key |-> "ieee", siteId |-> "ieee"]>>
    /\ currentAdapter = "ieee"

\* ---------------------------------------------- properties of queryBatch
\* the places of the log where event ev of title i stands
At(ev, i) ==
    {p \in 1..Len(batch.log) : batch.log[p].ev = ev /\ batch.log[p].i = i}

Before(P, Q) == \A p \in P, q \in Q : p < q

\* the result obtained by the last query of the list that is for this title
LastObtained(title) ==
    LET i == CHOOSE i \in 1..Len(batch.titles) :
                 /\ batch.titles[i] = title
                 /\ \A j \in 1..Len(batch.titles) :
                       batch.titles[j] = title => j <= i
    IN  batch.log[CHOOSE p \in At("result", i) : TRUE].result

\* C23: queryBatch takes the titles in list order, each once; the query of
\* a title, and with it its request, starts after the result of the title
\* before it has been obtained and the delay begun after that result has
\* elapsed; no delay is begun after the result of the last title; and the
\* Map returned holds, for each title of the list, the result obtained for
\* it.
C23_BatchSequential ==
    LET n == Len(batch.titles)
    IN  /\ \A p \in 1..Len(batch.log) : batch.log[p].i \in 1..n
        /\ \A i \in 1..n :
              /\ \A ev \in {"query", "request", "result", "delay", "elapsed"} :
                    Cardinality(At(ev, i)) <= 1
              /\ Before(At("query", i), At("request", i))
              /\ Before(At("query", i), At("result", i))
              /\ Before(At("request", i), At("result", i))
              /\ At("request", i) # {} => At("query", i) # {}
              /\ At("result", i) # {} => At("query", i) # {}
              /\ i > 1 /\ At("query", i) # {} =>
                    /\ At("result", i - 1) # {}
                    /\ At("delay", i - 1) # {}
                    /\ At("elapsed", i - 1) # {}
                    /\ Before(At("result", i - 1), At("delay", i - 1))
                    /\ Before(At("delay", i - 1), At("elapsed", i - 1))
                    /\ Before(At("elapsed", i - 1), At("query", i))
              /\ At("result", i) # {} /\ i < n /\ batch.pc # "delay" =>
                    At("elapsed", i) # {}
        /\ At("delay", n) = {}
        /\ batch.pc = "delay" =>
              At("delay", batch.i) # {} /\ At("elapsed", batch.i) = {}
        /\ batch.pc = "net" =>
              At("request", batch.i) # {} /\ At("result", batch.i) = {}
        /\ batch.pc = "done" =>
              /\ \A i \in 1..n : At("result", i) # {}
              /\ DOMAIN batch.results = {batch.titles[i] : i \in 1..n}
              /\ \A title \in DOMAIN batch.results :
                    batch.results[title] = LastObtained(title)

\* A batch of a title, a blank title and the first title again has
\* returned: the first query failed, the second was answered at once, the
\* third went to the network again and its result is the one in the Map.
C23_Witness ==
    /\ batch.pc = "done"
    /\ Len(batch.titles) = 3
    /\ Cardinality(At("request", 1)) = 1
    /\ At("request", 2) = {}
    /\ Cardinality(At("request", 3)) = 1
    /\ At("elapsed", 2) # {}
    /\ IsFailure(batch.log[CHOOSE p \in At("result", 1) : TRUE].result)
    /\ batch.results[batch.titles[3]].found
    /\ batch.results[batch.titles[2]] = EmptyTitleResult

\* ------------------------------------------- properties of the cache key
\* a title with its letters in lower case, without leading and trailing
\* whitespace and with one space for every run of internal whitespace: two
\* titles differ only in case and whitespace when these are equal
CaseAndSpaceFree(title) == Trim(CollapseSpaces(ToLowerCase(title)))

\* C24: two titles asked for have the same cache key exactly when they
\* differ only in letter case, in leading or trailing whitespace or in the
\* amount of internal whitespace.
C24_KeyIdentifiesTitle ==
    \A c, d \in calls :
        (generateCacheKey(c.title) = generateCacheKey(d.title))
            <=> (CaseAndSpaceFree(c.title) = CaseAndSpaceFree(d.title))

\* the part of C24 that holds: titles that differ only in case and
\* whitespace have one key, and the second call is served the result cached
\* by the first
C24_SameTitleSameKey ==
    \A c, d \in calls :
        CaseAndSpaceFree(c.title) = CaseAndSpaceFree(d.title) =>
            /\ generateCacheKey(c.title) = generateCacheKey(d.title)
            /\ (c.cid < d.cid /\ c.pc = "res" /\ c.start = "net"
                   /\ ~IsFailure(c.result) /\ d.start = "res")
                  => d.result = c.result

\* ------------------------------------ properties of the configuration map
\* the papers a step mounts a badge for, and those it enqueues a lookup for
\* (cleanup, which advances the epoch, unmounts every badge and forgets
\* every lookup in flight first)
MountedByStep ==
    IF processingEpoch' # processingEpoch THEN DOMAIN mountedBadges'
    ELSE DOMAIN mountedBadges' \ DOMAIN mountedBadges

EnqueuedByStep ==
    IF processingEpoch' # processingEpoch THEN dblpInFlight'
    ELSE dblpInFlight' \ dblpInFlight

RankShown(id) ==
    ~RankHidden([showRanks |-> showRanks'],
                RankOf(processedPapers'[id].matchResult))

SiteEnabled == currentAdapter' \in settings'.enabledSites

\* C25: a step mounts a badge or enqueues a lookup only for a paper whose
\* rank category is switched on in showRanks, on a site that is switched on
\* in enabledSites.
C25_ConfigurationFollowed ==
    [][\A id \in MountedByStep \cup EnqueuedByStep :
          RankShown(id) /\ SiteEnabled]_vars

\* the part of C25 that holds: no badge and no lookup for a paper whose
\* rank category is switched off
C25_RanksFollowed ==
    [][\A id \in MountedByStep \cup EnqueuedByStep : RankShown(id)]_vars

C25_RankSkipped ==
    /\ phase = "mounted"
    /\ "unknown" \notin showRanks
    /\ \E id \in DOMAIN processedPapers :
          /\ RankOf(processedPapers[id].matchResult) = Null
          /\ id \notin DOMAIN mountedBadges

\* ------------------------------------------- properties of the cache store
\* the calls whose result queryByTitle has written to the store
Stored(c) == c.start = "net" /\ c.pc = "res" /\ ~IsFailure(c.result)

CacheKeys == {generateCacheKey(title) : title \in ServiceTitles}

MatchTiers == <<"exact", "cleaned", "partial", "acronym">>

\* the criterion of a tier is satisfied by the venue for some catalog entry
Applies(tier, venue) ==
    \E i \in 1..Len(CatalogKeys) :
        LET key == CatalogKeys[i]
        IN  CASE tier = "exact"   -> ExactHit(key, venue)
              [] tier = "cleaned" -> CleanedHit(key, venue)
              [] tier = "partial" -> PartialHit(key, venue)
              [] OTHER            -> AcronymHit(key, venue)

Applicable(venue) == {i \in 1..Len(MatchTiers) : Applies(MatchTiers[i], venue)}

StartedByStep == {b \in tasks' : \A t \in tasks : t.tid # b.tid}

\* C28: the pending queue holds the tasks in the order they were enqueued,
\* and a step starts a task only when every task left pending was enqueued
\* after it: of two tasks that are both started, the one enqueued first is
\* started first.
C28_StartedInEnqueueOrder ==
    /\ [](\A i, j \in 1..Len(dblpQueue) :
             i < j => dblpQueue[i].tid < dblpQueue[j].tid)
    /\ [][\A b \in StartedByStep :
             \A i \in 1..Len(dblpQueue') : b.tid < dblpQueue'[i].tid]_vars

\* two tasks waited in the queue, and the one enqueued first has been
\* started while the other still waits
C28_Witness ==
    \E t \in tasks :
        /\ dblpQueue # <<>>
        /\ Head(dblpQueue).tid = t.tid + 1
        /\ Head(dblpQueue).epoch = t.epoch
        /\ t.epoch > 0
        /\ t.pc = "net"

\* --------------------------------------- properties of the use of the slots
\* C29: whenever control is back with the event loop and a task waits in the
\* pending queue, all DBLP_LOOKUP_CONCURRENCY slots are taken, each by a
\* started task that has not settled.
C29_WorkConserving ==
    (MicrotasksDrained /\ dblpQueue # <<>>) =>
        /\ dblpActiveCount = DBLP_LOOKUP_CONCURRENCY
        /\ Cardinality({t.tid : t \in tasks}) = DBLP_LOOKUP_CONCURRENCY

\* a slot was freed and given to the task at the head of the queue, and a
\* task still waits with both slots taken
C29_Witness ==
    /\ MicrotasksDrained
    /\ dblpQueue # <<>>
    /\ dblpActiveCount = DBLP_LOOKUP_CONCURRENCY
    /\ \E t \in tasks : t.epoch = processingEpoch /\ t.epoch > 0

\* ------------------------------------ properties of the ledger upgrade
\* the lookups that resume after their await in this step
ResumedByStep == {t \in tasks : t.pc = "res" /\ [t EXCEPT !.pc = "fin"] \in tasks'}

HasVenue(result) ==
    /\ result.error = Undefined
    /\ result.found
    /\ result.venue # Null

\* C30: when a lookup resumes in the epoch it was enqueued under, the ledger
\* entry of its paper takes the venue of a found result with a venue, the
\* venue source 'dblp', the match of that venue and, if it had no year, the
\* year of the result; a result with an error, not found or without a venue
\* leaves the ledger as it is. No other entry changes.
C30_LedgerUpgraded ==
    [][\A t \in ResumedByStep :
          t.epoch = processingEpoch =>
              /\ t.id \in DOMAIN processedPapers
              /\ processedPapers' =
                     IF HasVenue(t.result)
                     THEN [processedPapers EXCEPT
                             ![t.id].venue = t.result.venue,
                             ![t.id].venueSource = "dblp",
                             ![t.id].matchResult = Match(t.result.venue),
                             ![t.id].year =
                                 IF @ = Null THEN t.result.year ELSE @]
                     ELSE processedPapers]_vars

\* the entry of a paper with a year has been upgraded by a lookup of the
\* current epoch, and has kept its year
C30_Witness ==
    \E t \in tasks :
        /\ t.pc = "fin"
        /\ t.epoch = processingEpoch
        /\ HasVenue(t.result)
        /\ t.result.year = "2017"
        /\ t.id \in DOMAIN processedPapers
        /\ processedPapers[t.id].venueSource = "dblp"
        /\ processedPapers[t.id].venue = t.result.venue
        /\ processedPapers[t.id].year = "2023"

\* -------------------------------------------- properties of the mounting
\* the ledger was not emptied by the step and the entry of id is in it,
\* marked processed, before and after
StaysProcessed(id) ==
    /\ processingEpoch' = processingEpoch
    /\ id \in DOMAIN processedPapers /\ processedPapers[id].processed
    /\ id \in DOMAIN processedPapers'

\* C31: the document holds at most one badge container per paper id, the
\* one of its entry in mountedBadges; mountBadge called for a paper that
\* has a badge changes nothing; and a step that does not reset the ledger
\* creates no container for a paper marked processed.
C31_OneBadgePerPaper ==
    /\ [](\A id \in Ids :
             /\ badgeContainers[id] <= 1
             /\ badgeContainers[id] = 1 <=> id \in DOMAIN mountedBadges
             /\ (id \in DOMAIN mountedBadges /\ id \in DOMAIN processedPapers)
                   => mountBadge(Cur, id, FALSE) = Cur)
    /\ [][\A id \in Ids :
             StaysProcessed(id) => badgeContainers'[id] = badgeContainers[id]]_vars

\* a paper marked processed, whose lookup has upgraded its entry, has its
\* one badge, next to the badge of another paper
C31_Witness ==
    /\ phase = "mounted"
    /\ badgeContainers["p1"] = 1
    /\ processedPapers["p1"].processed
    /\ processedPapers["p1"].venueSource = "dblp"
    /\ badgeContainers["p3"] = 1
    /\ processingEpoch = 0

\* ------------------------------------- properties of the settings watcher
\* the first element of the page that lists the paper
FirstElementOf(page, id) ==
    page[CHOOSE i \in 1..Len(page) :
            /\ PaperAt(page[i]).id = id
            /\ \A j \in 1..(i - 1) : PaperAt(page[j]).id # id]

PageIds(page) == {PaperAt(page[i]).id : i \in 1..Len(page)}

\* the ledger entry of a paper just extracted from the element
FreshEntry(e, processed) ==
    LET paper == PaperAt(e)
    IN  [id |-> paper.id, title |-> paper.title, year |-> paper.year,
         venue |-> paper.venue, venueSource |-> paper.venueSource,
         element |-> e,
         matchResult |-> IF paper.venue # Null
                         THEN Match(paper.venue) ELSE ZeroMatch,
         processed |-> processed]

\* n is the state the watcher leaves when it runs in state s on the page
TornDown(s, n) ==
    /\ n.processingEpoch = s.processingEpoch + 1
    /\ \A i \in 1..Len(n.dblpQueue) : n.dblpQueue[i].epoch = n.processingEpoch
    /\ \A t \in n.tasks : t.epoch = n.processingEpoch \/ t \in s.tasks
    /\ DOMAIN n.mountedBadges \subseteq DOMAIN n.processedPapers
    /\ \A id \in Ids :
          n.badgeContainers[id] = IF id \in DOMAIN n.mountedBadges THEN 1 ELSE 0

ReevaluatedPage(s, n, page) ==
    /\ DOMAIN n.processedPapers = PageIds(page)
    /\ \A id \in PageIds(page) :
          LET e == FirstElementOf(page, id)
              shown == ~RankHidden(n, RankOf(FreshEntry(e, FALSE).matchResult))
          IN  /\ n.processedPapers[id] = FreshEntry(e, shown)
              /\ id \in DOMAIN n.mountedBadges <=> shown
              /\ e \in n.marker <=> shown
    /\ n.marker \ {FirstElementOf(page, id) : id \in PageIds(page)}
          = s.marker \ {s.processedPapers[id].element :
                           id \in DOMAIN s.processedPapers}
    /\ n.observing

\* C32: in every state the App reaches, for every change of showRanks and
\* every page, the watcher leaves the badges of the old epoch unmounted, the
\* epoch advanced by one and no lookup of the old epoch pending; and, when
\* an adapter is current, the ledger holding a new entry for exactly the
\* papers of the page, each with its badge mounted and its element marked
\* exactly when the new settings show its rank, the markers of the old
\* entries stripped, and the observer connected.
C32_SettingsChangeReprocesses ==
    \A ranks \in ShowRanksChoices \ {showRanks}, page \in AppPages :
        (phase \in {"setup", "mounted"} /\ MicrotasksDrained) =>
            LET s == [Cur EXCEPT !.showRanks = ranks]
                n == watchShowRanks(s, page, FALSE)
            IN  /\ TornDown(s, n)
                /\ s.currentAdapter # Null => ReevaluatedPage(s, n, page)

\* the watcher has run on a page with a paper of rank A while A is hidden:
\* the paper is in the ledger without a badge, another has its badge again
C32_Witness ==
    /\ processingEpoch > 0
    /\ observing
    /\ "A" \notin showRanks
    /\ "p3" \in DOMAIN processedPapers /\ "p3" \notin DOMAIN mountedBadges
    /\ "p1" \in DOMAIN mountedBadges


RequestsFor(cs, key) ==
    {c \in cs : c.pc = "net" /\ generateCacheKey(c.title) = key}

Running == TidsOf(tasks)

\* C34: the active-task counter is the number of tasks that were started and
\* whose settlement has not been handled, which between events is the number
\* of started tasks that have not settled; it is never negative; cleanup()
\* leaves the counter and the running tasks as they are, so a lookup of the
\* current epoch waits in the queue only while every slot is held, be it by
\* lookups of earlier epochs.
C34_ActiveCountTracksTasks ==
    /\ dblpActiveCount = Cardinality(Running)
    /\ dblpActiveCount >= 0
    /\ MicrotasksDrained => dblpActiveCount = Cardinality(TidsOf(Unsettled))
    /\ cleanup(Cur).dblpActiveCount = dblpActiveCount
    /\ cleanup(Cur).tasks = tasks
    /\ (MicrotasksDrained /\ \E q \in Queued : q.epoch = processingEpoch)
          => Cardinality(TidsOf(Unsettled)) = DBLP_LOOKUP_CONCURRENCY

\* After a teardown every slot is held by a lookup of an earlier epoch and a
\* lookup enqueued in the new epoch waits in the queue.
C34_Witness ==
    /\ MicrotasksDrained
    /\ processingEpoch > 0
    /\ dblpActiveCount = DBLP_LOOKUP_CONCURRENCY
    /\ \A t \in tasks : t.epoch < processingEpoch
    /\ \E q \in Queued : q.epoch = processingEpoch


\* ------------------------------------------ properties of the in-flight set
\* the paper ids with a lookup of the current epoch queued or running
CurrentLookupIds ==
    {t.id : t \in {u \in Queued \cup Unsettled : u.epoch = processingEpoch}}

\* C35: the in-flight set holds a paper id exactly when a lookup for that id
\* enqueued in the current epoch is queued or running.
C35_InFlightExact ==
    dblpInFlight = CurrentLookupIds


\* ----------------------------- properties of the cache across a teardown
\* the lookups whose request calls back in this step
RespondedByStep ==
    {u \in tasks' : u.pc = "res" /\ \E t \in tasks : t.tid = u.tid /\ t.pc = "net"}

\* C36: a lookup whose request returns successfully has its result in the
\* cache when it resumes, whatever its epoch, and the continuation of a
\* lookup of an earlier epoch discards the result; a lookup started while its
\* title's key is cached issues no request: it has the cached result at once
\* (or is rejected by a failing cache store).
C36_StaleResultCached ==
    [][/\ \A u \in RespondedByStep :
             ~IsFailure(u.result)
                 => CacheGet(cache', generateCacheKey(u.title)) = u.result
       /\ \A t \in ResumedByStep :
             IsStale(Cur, t) =>
                 /\ CacheGet(cache', generateCacheKey(t.title)) = t.result
                       \/ IsFailure(t.result)
                 /\ UNCHANGED <<processedPapers, mountedBadges, stats>>
       /\ \A b \in StartedByStep :
             CacheGet(cache, generateCacheKey(b.title)) # CacheNull
                 => /\ b.pc # "net"
                    /\ b.pc = "res" =>
                          b.result = CacheGet(cache, generateCacheKey(b.title))]_vars

\* The request of a lookup of an earlier epoch has returned with a venue: the
\* result is in the cache and about to be discarded, while the lookup
\* enqueued for the same paper after the teardown waits in the queue.
C36_Witness ==
    \E t \in tasks :
        /\ t.pc = "res"
        /\ t.epoch < processingEpoch
        /\ t.result.found
        /\ CacheGet(cache, generateCacheKey(t.title)) = t.result
        /\ \E q \in Queued :
              /\ q.epoch = processingEpoch
              /\ q.id = t.id
              /\ generateCacheKey(q.title) = generateCacheKey(t.title)


\* ------------------------------------------ properties of the loading state
Loading(id) == id \in DOMAIN mountedBadges /\ mountedBadges[id].loading

\* C37: when every lookup settles, a badge that shows loading eventually
\* shows something else or is unmounted by a teardown: no mounted badge
\* stays loading forever.
C37_LoadingEventuallyLeaves ==
    \A id \in Ids : Loading(id) ~> ~Loading(id)


\* ------------------------------- properties of marking an unknown paper id
\* the id is marked processed and has no ledger entry
MarkedOnly(s, id) == id \in s.processedElements /\ ~HasPaper(s, id)

\* C38: markAsProcessed(id) for an id without a ledger entry changes nothing
\* but the processed-id set, which gains the id: no ledger entry is created
\* and no DOM marker set, and isProcessed(id) is true afterwards. While an id
\* is in that state every processCurrentPage skips its paper, and the id
\* stays in that state until reset() (or a new SiteManager).
C38_MarkUnknownId ==
    /\ [](\A id \in Ids :
            /\ ~HasPaper(Cur, id) =>
                  LET s1 == markAsProcessed(Cur, id)
                  IN  /\ s1 = [Cur EXCEPT !.processedElements = @ \cup {id}]
                      /\ isProcessed(s1, id, Null).ret
                      /\ MarkedOnly(s1, id)
            /\ MarkedOnly(Cur, id) =>
                  \A page \in PageSeqs :
                      MarkedOnly(processCurrentPage(Cur, page), id))
    /\ [][\A id \in Ids :
            (MarkedOnly(Cur, id) /\ last'.op \notin {"reset", "new"})
                => /\ id \in processedElements'
                   /\ id \notin DOMAIN processedPapers']_vars

\* p2 was marked processed without a ledger entry; a later scan with an
\* adapter in place has entered other papers and left p2 out, and the
\* element of p2 carries no marker.
C38_Witness ==
    /\ last.op = "processCurrentPage"
    /\ "p2" \in last.marks
    /\ MarkedOnly(Cur, "p2")
    /\ "e3" \notin marker
    /\ currentAdapter # Null
    /\ "p1" \in DOMAIN processedPapers


\* ------------------------------- properties of the two views of the ledger
CatalogRanks == {"A", "B", "C"}

\* the ids of the papers getPapersByRank returns
IdsByRank(s, rank) ==
    LET papers == getPapersByRank(s, rank)
    IN  {papers[i].id : i \in 1..Len(papers)}

FailureSwallowed(failed, written) ==
    /\ ~failed.storeCall.threw
    /\ Len(failed.storeCall.errors) > 0
    /\ SettingsOf(failed) = SettingsOf(written)
    /\ failed.gmStorage = gmStorage
    /\ written.storeCall = NoCall
    /\ written.gmStorage = StoredFor(SettingsOf(written))

\* C40: when GM_setValue throws in update, batchUpdate, setRankDisplay,
\* setSiteEnabled or reset, the call logs the error and does not throw, the
\* in-memory settings are those the call sets when the write goes through,
\* and the stored value stays as it was; save() called directly logs and
\* throws, and changes neither the settings nor the stored value.
C40_WriteFailureSwallowed ==
    /\ FailureSwallowed(resetSettings(NewCall, TRUE), resetSettings(NewCall, FALSE))
    /\ SettingsOf(resetSettings(NewCall, TRUE)) = DEFAULT_SETTINGS
    /\ \A v \in PartialRanks :
          FailureSwallowed(update(NewCall, "showRanks", v, TRUE),
                           update(NewCall, "showRanks", v, FALSE))
    /\ \A v \in PartialSites :
          FailureSwallowed(update(NewCall, "enabledSites", v, TRUE),
                           update(NewCall, "enabledSites", v, FALSE))
    /\ FailureSwallowed(update(NewCall, "badgePosition", "inline", TRUE),
                        update(NewCall, "badgePosition", "inline", FALSE))
    /\ update(NewCall, "badgePosition", "inline", TRUE).settings.badgePosition
          = "inline"
    /\ FailureSwallowed(update(NewCall, "debugMode", TRUE, TRUE),
                        update(NewCall, "debugMode", TRUE, FALSE))
    /\ update(NewCall, "debugMode", TRUE, TRUE).settings.debugMode
    /\ \A u \in BatchUpdates :
          FailureSwallowed(batchUpdate(NewCall, u, TRUE),
                           batchUpdate(NewCall, u, FALSE))
    /\ \A rank \in PanelRanks, enabled \in BOOLEAN :
          /\ FailureSwallowed(setRankDisplay(NewCall, rank, enabled, TRUE),
                              setRankDisplay(NewCall, rank, enabled, FALSE))
          /\ (rank \in setRankDisplay(NewCall, rank, enabled, TRUE).showRanks)
                = enabled
    /\ \A site \in PanelSites, enabled \in BOOLEAN :
          /\ FailureSwallowed(setSiteEnabled(NewCall, site, enabled, TRUE),
                              setSiteEnabled(NewCall, site, enabled, FALSE))
          /\ (site \in setSiteEnabled(NewCall, site, enabled, TRUE)
                           .settings.enabledSites) = enabled
    /\ save(NewCall, TRUE).storeCall.threw
    /\ Len(save(NewCall, TRUE).storeCall.errors) = 1
    /\ save(NewCall, TRUE) = [NewCall EXCEPT !.storeCall = save(NewCall, TRUE).storeCall]
    /\ last.op \in MutationOps => ~storeCall.threw
    /\ (last.op = "save" /\ storeCall.threw) => Len(storeCall.errors) = 1

\* setSiteEnabled has switched arXiv off while the write failed: the call
\* logged the failure twice and did not throw, the setting is off in memory
\* and the stored settings still have it on.
C40_Witness ==
    /\ last.op = "setSiteEnabled"
    /\ ~storeCall.threw
    /\ Len(storeCall.errors) = 2
    /\ "arxiv" \notin settings.enabledSites
    /\ gmStorage # JsNull
    /\ Get(Get(Get(gmStorage, "settings"), "enabledSites"), "arxiv")
           = JsBoolean(TRUE)

====
